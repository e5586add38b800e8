-------------------------- MODULE FileManagerProofs --------------------------
EXTENDS FileManagerInv, TLAPS

(***************************************************************************)
(* Proofs about the shared files.  Lemmas on kinds of steps come first; an *)
(* action is then one or two kinds, chosen by how it ends.                 *)
(***************************************************************************)

\* What the type invariant says of the functions that the proofs update.
LEMMA Shapes ==
  ASSUME TypeOK
  PROVE  /\ pc \in [Threads -> Pcs]
         /\ req \in [Threads -> AllRequests]
         /\ lock \in [Threads -> {"none", "shared", "exclusive"}]
         /\ result \in [Threads -> {0, -1}]
         /\ file_fd \in [Threads -> Ids \union {None}]
         /\ write_failed \in [Threads -> BOOLEAN]
         /\ remaining \in [Threads -> Sizes]
         /\ owed \in [Threads -> Sizes]
         /\ storage \in [Names -> Ids \union {None}]
         /\ temp \in [Threads -> Ids \union {None}]
         /\ inode \in [Ids -> Inodes]
         /\ nreq \in 0 .. MaxRequests
         /\ MaxRequests \in Nat
         /\ None \notin Names \union Threads \union Nat
  BY FileManagerAssumption
     DEF TypeOK, CallType, TransferType, DiskType, CounterType

\* A thread leaves the part of its request that the invariant speaks of: it
\* goes on to the cleanup, or comes back to the handler.
LEMMA QuietStep ==
  ASSUME TypeOK, FileInv,
         NEW t \in Threads, NEW l \in {"success", "cleanup", "release", "idle"},
         NEW r \in {0, -1},
         pc' = [pc EXCEPT ![t] = l],
         result' = [result EXCEPT ![t] = r],
         l # "idle" => pc[t] # "idle",
         l = "success" => r = 0,
         r = 0 => owed[t] = 0,
         lock' = lock \/ lock' = [lock EXCEPT ![t] = "none"],
         l = "idle" => lock'[t] = "none",
         \A u \in Threads \ {t} :
             /\ temp'[u] = temp[u] /\ file_fd'[u] = file_fd[u]
             /\ remaining'[u] = remaining[u]
             /\ write_failed'[u] = write_failed[u],
         UNCHANGED <<storage, inode, req, owed, nreq>>
  PROVE  FileInv'
<1>1. NumInv' /\ PlaceInv'
  BY Shapes DEF FileInv, NumInv, PlaceInv, Private
<1>2. FreshInv'
  BY Shapes DEF FileInv, FreshInv, Private
<1>3. WriteInv'
  BY Shapes DEF FileInv, WriteInv
<1>4. OwedInv'
  BY Shapes DEF FileInv, OwedInv
<1>5. LockInv'
  BY Shapes DEF FileInv, LockInv, Uploading
<1>6. FilesComplete' /\ DownloadWhole' /\ DestinationStaysFree'
  BY Shapes DEF FileInv, FilesComplete, Present, DownloadWhole, DestinationStaysFree
<1> QED BY <1>1, <1>2, <1>3, <1>4, <1>5, <1>6 DEF FileInv

\* A request arrives: it gets a number that no request and no inode has.
LEMMA ReceiveStep ==
  ASSUME TypeOK, FileInv, NEW t \in Threads, NEW l \in {"lock", "begin"},
         NEW q \in AllRequests, q.num = nreq', l = "lock" => q.name \in Names,
         Receive(t, q), Goto(t, l)
  PROVE  FileInv'
<1>1. /\ pc' = [pc EXCEPT ![t] = l] /\ req' = [req EXCEPT ![t] = q]
      /\ pc[t] = "idle" /\ result[t] = 0
      /\ nreq < MaxRequests /\ nreq' = nreq + 1 /\ q.num = nreq + 1
      /\ UNCHANGED <<storage, temp, inode, lock, transfer, list, result>>
  BY DEF Receive, Goto, disk
<1>2. q.num \in Ids
  BY <1>1, Shapes DEF Ids
<1>3. NumInv'
  BY <1>1, <1>2, Shapes DEF FileInv, NumInv, AllRequests, Ids
<1>4. PlaceInv'
  BY <1>1, Shapes DEF FileInv, PlaceInv, Private, transfer
<1>5. FreshInv'
  BY <1>1, Shapes DEF FileInv, FreshInv, NumInv, PlaceInv, Private, transfer
<1>6. WriteInv'
  BY <1>1, Shapes DEF FileInv, WriteInv, transfer
<1>7. OwedInv'
  BY <1>1, Shapes DEF FileInv, OwedInv, transfer
<1>8. LockInv'
  BY <1>1, Shapes DEF FileInv, LockInv, Uploading
<1>9. FilesComplete' /\ DownloadWhole' /\ DestinationStaysFree'
  BY <1>1, Shapes
     DEF FileInv, FilesComplete, Present, DownloadWhole, DestinationStaysFree,
         transfer
<1> QED BY <1>3, <1>4, <1>5, <1>6, <1>7, <1>8, <1>9 DEF FileInv

\* A thread gets its lock: no other thread has one that excludes it.
LEMMA LockStep ==
  ASSUME TypeOK, FileInv, NEW t \in Threads, NEW l \in {"stat", "open"},
         NEW m \in {"shared", "exclusive"},
         pc[t] = "lock", Compatible(t, m),
         l = "stat" => m = "exclusive",
         lock' = [lock EXCEPT ![t] = m], pc' = [pc EXCEPT ![t] = l],
         UNCHANGED <<disk, req, transfer, result, nreq>>
  PROVE  FileInv'
<1>1. NumInv' /\ PlaceInv' /\ FreshInv'
  BY Shapes DEF FileInv, NumInv, PlaceInv, FreshInv, Private, disk, transfer
<1>2. WriteInv' /\ OwedInv'
  BY Shapes DEF FileInv, WriteInv, OwedInv, PlaceInv, disk, transfer
<1>3. LockInv'
  BY Shapes DEF FileInv, LockInv, Uploading, Compatible
<1>4. FilesComplete' /\ DownloadWhole' /\ DestinationStaysFree'
  BY Shapes DEF FileInv, FilesComplete, Present, DownloadWhole,
                DestinationStaysFree, disk, transfer
<1> QED BY <1>1, <1>2, <1>3, <1>4 DEF FileInv

\* An upload goes on under its exclusive lock, before it has a file.
LEMMA PrepareStep ==
  ASSUME TypeOK, FileInv, NEW t \in Threads, NEW l \in {"clear", "create"},
         pc[t] \in {"stat", "clear"}, storage[req[t].name] = None \/ pc[t] = "clear",
         pc' = [pc EXCEPT ![t] = l],
         \A u \in Threads \ {t} : temp'[u] = temp[u],
         UNCHANGED <<storage, inode, req, lock, transfer, result, nreq>>
  PROVE  FileInv'
<1>1. NumInv' /\ PlaceInv' /\ FreshInv'
  BY Shapes DEF FileInv, NumInv, PlaceInv, FreshInv, Private, transfer
<1>2. WriteInv' /\ OwedInv'
  BY Shapes DEF FileInv, WriteInv, OwedInv, transfer
<1>3. LockInv'
  BY Shapes DEF FileInv, LockInv, Uploading
<1>4. FilesComplete' /\ DownloadWhole' /\ DestinationStaysFree'
  BY Shapes DEF FileInv, FilesComplete, Present, DownloadWhole,
                DestinationStaysFree, transfer
<1> QED BY <1>1, <1>2, <1>3, <1>4 DEF FileInv

\* The temporary file is created: its inode is new.
LEMMA CreateStep ==
  ASSUME TypeOK, FileInv, NEW t \in Threads,
         pc[t] = "create", pc' = [pc EXCEPT ![t] = "ready"],
         temp' = [temp EXCEPT ![t] = req[t].num],
         inode' = [inode EXCEPT ![req[t].num] =
                      [regular |-> TRUE, size |-> req[t].size, len |-> 0]],
         file_fd' = [file_fd EXCEPT ![t] = req[t].num],
         UNCHANGED <<storage, req, lock, write_failed, remaining, owed, result,
                     nreq>>
  PROVE  FileInv'
<1>1. req[t].num \in Ids /\ \A u \in Threads \ {t} : req[u].num # req[t].num
  BY Shapes DEF FileInv, NumInv, Ids
<1>2. NumInv' /\ PlaceInv' /\ FreshInv'
  BY <1>1, Shapes DEF FileInv, NumInv, PlaceInv, FreshInv, Private
<1>3. WriteInv'
  BY <1>1, Shapes DEF FileInv, WriteInv, NumInv, Inodes
<1>4. OwedInv' /\ LockInv'
  BY Shapes DEF FileInv, OwedInv, PlaceInv, LockInv, Uploading
<1>5. FilesComplete' /\ DestinationStaysFree'
  BY <1>1, Shapes DEF FileInv, FilesComplete, Present, FreshInv, Private,
                DestinationStaysFree
<1>6. DownloadWhole'
  BY <1>1, Shapes DEF FileInv, DownloadWhole, FreshInv, PlaceInv, Private, Ids
<1> QED BY <1>2, <1>3, <1>4, <1>5, <1>6 DEF FileInv

\* UPLOAD_READY has been sent: the client owes every block.
LEMMA ReadyStep ==
  ASSUME TypeOK, FileInv, NEW t \in Threads,
         pc[t] = "ready", pc' = [pc EXCEPT ![t] = "recv"],
         owed' = [owed EXCEPT ![t] = req[t].size],
         remaining' = [remaining EXCEPT ![t] = req[t].size],
         write_failed' = [write_failed EXCEPT ![t] = FALSE],
         result' = [result EXCEPT ![t] = 0],
         UNCHANGED <<disk, req, lock, file_fd, nreq>>
  PROVE  FileInv'
<1>1. NumInv' /\ PlaceInv' /\ FreshInv'
  BY Shapes DEF FileInv, NumInv, PlaceInv, FreshInv, Private, disk
<1>2. WriteInv'
  BY Shapes DEF FileInv, WriteInv, disk, AllRequests, Sizes
<1>3. OwedInv' /\ LockInv'
  BY Shapes DEF FileInv, OwedInv, LockInv, Uploading
<1>4. FilesComplete' /\ DownloadWhole' /\ DestinationStaysFree'
  BY Shapes DEF FileInv, FilesComplete, Present, DownloadWhole,
                DestinationStaysFree, disk
<1> QED BY <1>1, <1>2, <1>3, <1>4 DEF FileInv

\* A block is received, and written or not.
LEMMA BlockStep ==
  ASSUME TypeOK, FileInv, NEW t \in Threads, ReceiveBlock(t)
  PROVE  FileInv'
<1>1. /\ pc[t] = "recv" /\ remaining[t] > 0 /\ file_fd[t] = req[t].num
      /\ remaining' = [remaining EXCEPT ![t] = @ - 1]
      /\ owed' = [owed EXCEPT ![t] = @ - 1]
      /\ UNCHANGED <<storage, temp, pc, req, lock, file_fd, result, nreq>>
  BY DEF ReceiveBlock, answer, FileInv, WriteInv
<1>2. req[t].num \in Ids /\ \A u \in Threads \ {t} : req[u].num # req[t].num
  BY <1>1, Shapes DEF FileInv, NumInv, Ids
<1>3. /\ \A u \in Threads \ {t} : write_failed'[u] = write_failed[u]
      /\ \A i \in Ids \ {req[t].num} : inode'[i] = inode[i]
      /\ inode'[req[t].num].size = inode[req[t].num].size
      /\ \/ write_failed'[t] /\ inode'[req[t].num].len = inode[req[t].num].len
         \/ /\ ~write_failed'[t] /\ ~write_failed[t]
            /\ inode'[req[t].num].len = inode[req[t].num].len + 1
  BY <1>1, <1>2, Shapes DEF ReceiveBlock, Inodes
<1>4. NumInv' /\ PlaceInv' /\ FreshInv'
  BY <1>1, Shapes DEF FileInv, NumInv, PlaceInv, FreshInv, Private
<1>5. WriteInv'
  <2>1. /\ remaining[t] \in Int /\ req[t].size \in Int
        /\ inode[req[t].num].len \in Int
        /\ remaining'[t] = remaining[t] - 1
    BY <1>1, <1>2, Shapes, FileManagerAssumption DEF Inodes, Sizes, AllRequests
  <2>2. ASSUME NEW u \in Threads \ {t}, pc[u] # "idle"
        PROVE  inode'[req[u].num] = inode[req[u].num] /\ remaining'[u] = remaining[u]
    BY <1>1, <1>2, <1>3, <2>2, Shapes DEF FileInv, NumInv
  <2>3. WriteInv
    BY DEF FileInv
  <2> QED BY <1>1, <1>3, <2>1, <2>2, <2>3 DEF WriteInv
<1>6. OwedInv' /\ LockInv'
  BY <1>1, Shapes DEF FileInv, OwedInv, LockInv, Uploading
<1>7. FilesComplete' /\ DestinationStaysFree'
  BY <1>1, <1>2, <1>3, Shapes DEF FileInv, FilesComplete, Present, FreshInv,
                Private, DestinationStaysFree
<1>8. DownloadWhole'
  BY <1>1, <1>2, <1>3, Shapes DEF FileInv, DownloadWhole, FreshInv, PlaceInv,
                Private, Ids
<1> QED BY <1>4, <1>5, <1>6, <1>7, <1>8 DEF FileInv

\* Everything has been received and written: the file can be published.
LEMMA CompleteStep ==
  ASSUME TypeOK, FileInv, NEW t \in Threads,
         pc[t] = "recv", remaining[t] = 0, ~write_failed[t],
         pc' = [pc EXCEPT ![t] = "link"],
         file_fd' = [file_fd EXCEPT ![t] = None],
         UNCHANGED <<disk, req, lock, write_failed, remaining, owed, result, nreq>>
  PROVE  FileInv'
<1>1. NumInv' /\ PlaceInv' /\ FreshInv'
  BY Shapes DEF FileInv, NumInv, PlaceInv, FreshInv, Private, disk
<1>2. WriteInv'
  BY Shapes DEF FileInv, WriteInv, NumInv, disk, AllRequests, Sizes, Inodes
<1>3. OwedInv' /\ LockInv'
  BY Shapes DEF FileInv, OwedInv, LockInv, Uploading
<1>4. FilesComplete' /\ DownloadWhole' /\ DestinationStaysFree'
  BY Shapes DEF FileInv, FilesComplete, Present, DownloadWhole,
                DestinationStaysFree, disk
<1> QED BY <1>1, <1>2, <1>3, <1>4 DEF FileInv

\* linkat() shares a complete file under a name that no other upload holds.
LEMMA PublishStep ==
  ASSUME TypeOK, FileInv, NEW t \in Threads,
         pc[t] = "link", storage[req[t].name] = None,
         storage' = [storage EXCEPT ![req[t].name] = temp[t]],
         pc' = [pc EXCEPT ![t] = "unlink"],
         UNCHANGED <<temp, inode, req, lock, transfer, result, nreq>>
  PROVE  FileInv'
<1>1. /\ req[t].name \in Names /\ temp[t] = req[t].num /\ req[t].num \in Ids
      /\ req[t].num <= nreq
      /\ \A u \in Threads \ {t} : req[u].num # req[t].num
      /\ inode[req[t].num].len = inode[req[t].num].size
  BY Shapes DEF FileInv, NumInv, PlaceInv, WriteInv, Private, Ids
<1>2. NumInv' /\ PlaceInv'
  BY <1>1, Shapes DEF FileInv, NumInv, PlaceInv, Private, transfer
<1>3. FreshInv'
  BY <1>1, Shapes DEF FileInv, FreshInv, Private, transfer
<1>4. WriteInv' /\ OwedInv'
  BY Shapes DEF FileInv, WriteInv, OwedInv, transfer
<1>5. LockInv'
  BY Shapes DEF FileInv, LockInv, Uploading
<1>6. FilesComplete' /\ DownloadWhole'
  BY <1>1, Shapes DEF FileInv, FilesComplete, Present, DownloadWhole, transfer
<1>7. DestinationStaysFree'
  BY <1>1, Shapes DEF FileInv, LockInv, Uploading, DestinationStaysFree
<1> QED BY <1>2, <1>3, <1>4, <1>5, <1>6, <1>7 DEF FileInv

\* A download opens a shared file, which is complete.
LEMMA OpenStep ==
  ASSUME TypeOK, FileInv, NEW t \in Threads,
         pc[t] = "open", storage[req[t].name] # None,
         inode[storage[req[t].name]].regular,
         file_fd' = [file_fd EXCEPT ![t] = storage[req[t].name]],
         req' = [req EXCEPT ![t].size = inode[storage[req[t].name]].len],
         \A u \in Threads \ {t} : remaining'[u] = remaining[u],
         pc' = [pc EXCEPT ![t] = "stream"],
         UNCHANGED <<disk, lock, write_failed, owed, result, nreq>>
  PROVE  FileInv'
<1>1. /\ req[t].name \in Names /\ storage[req[t].name] \in 1 .. nreq
      /\ storage[req[t].name] \in Ids
      /\ inode[storage[req[t].name]].len = inode[storage[req[t].name]].size
  BY Shapes DEF FileInv, NumInv, PlaceInv, FilesComplete, Present, Ids
<1>2. /\ \A u \in Threads : /\ req'[u].num = req[u].num
                            /\ req'[u].name = req[u].name
      /\ \A u \in Threads \ {t} : req'[u] = req[u]
      /\ req'[t].size = inode[storage[req[t].name]].len
  BY <1>1, Shapes DEF AllRequests
<1>3. NumInv' /\ PlaceInv'
  BY <1>1, <1>2, Shapes DEF FileInv, NumInv, PlaceInv, Private, disk
<1>4. FreshInv'
  BY <1>1, <1>2, Shapes DEF FileInv, FreshInv, Private, disk
<1>5. WriteInv' /\ OwedInv'
  BY <1>2, Shapes DEF FileInv, WriteInv, OwedInv, disk
<1>6. LockInv'
  BY <1>2, Shapes DEF FileInv, LockInv, Uploading
<1>7. FilesComplete' /\ DestinationStaysFree'
  BY <1>2, Shapes DEF FileInv, FilesComplete, Present, DestinationStaysFree, disk
<1>8. DownloadWhole'
  BY <1>1, <1>2, Shapes DEF FileInv, DownloadWhole, Inodes, disk
<1> QED BY <1>3, <1>4, <1>5, <1>6, <1>7, <1>8 DEF FileInv

\* A thread goes on in a place that the invariant says nothing special of.
LEMMA StayStep ==
  ASSUME TypeOK, FileInv, NEW t \in Threads,
         pc[t] \in {"stream", "begin", "readdir"},
         \/ pc' = pc
         \/ pc[t] = "begin" /\ pc' = [pc EXCEPT ![t] = "readdir"],
         result' = result \/ result' = [result EXCEPT ![t] = 0],
         \A u \in Threads \ {t} : remaining'[u] = remaining[u],
         UNCHANGED <<disk, req, lock, file_fd, write_failed, owed, nreq>>
  PROVE  FileInv'
<1>1. NumInv' /\ PlaceInv' /\ FreshInv'
  BY Shapes DEF FileInv, NumInv, PlaceInv, FreshInv, Private, disk
<1>2. WriteInv'
  BY Shapes DEF FileInv, WriteInv, disk
<1>3. result[t] = 0
  BY Shapes DEF FileInv, PlaceInv
<1>4. OwedInv' /\ LockInv'
  BY <1>3, Shapes DEF FileInv, OwedInv, LockInv, Uploading
<1>5. FilesComplete' /\ DownloadWhole' /\ DestinationStaysFree'
  BY Shapes DEF FileInv, FilesComplete, Present, DownloadWhole,
                DestinationStaysFree, disk
<1> QED BY <1>1, <1>2, <1>4, <1>5 DEF FileInv

\* A thread between two requests: an early refusal, or a new connection.
LEMMA IdleStep ==
  ASSUME TypeOK, FileInv, NEW t \in Threads, NEW r \in {0, -1}, pc[t] = "idle",
         req' = [req EXCEPT ![t] = NoRequest],
         result' = [result EXCEPT ![t] = r],
         (owed' = owed /\ result[t] = 0) \/ owed' = [owed EXCEPT ![t] = 0],
         nreq' \in {nreq, nreq + 1}, pc' = [pc EXCEPT ![t] = "idle"],
         UNCHANGED <<disk, lock, file_fd, write_failed, remaining>>
  PROVE  FileInv'
<1>1. req'[t].num = 0 /\ \A u \in Threads \ {t} : req'[u] = req[u]
  BY Shapes DEF NoRequest, Request
<1>2. pc' = pc
  BY Shapes
<1>3. NumInv'
  BY <1>1, <1>2, Shapes DEF FileInv, NumInv, AllRequests, Ids, disk
<1>4. PlaceInv' /\ FreshInv'
  BY <1>1, <1>2, Shapes DEF FileInv, PlaceInv, FreshInv, Private, disk
<1>5. WriteInv' /\ OwedInv'
  BY <1>1, <1>2, Shapes DEF FileInv, WriteInv, OwedInv, disk
<1>6. LockInv'
  BY <1>1, <1>2, Shapes DEF FileInv, LockInv, Uploading
<1>7. FilesComplete' /\ DownloadWhole' /\ DestinationStaysFree'
  BY <1>1, <1>2, Shapes DEF FileInv, FilesComplete, Present, DownloadWhole,
                DestinationStaysFree, disk
<1> QED BY <1>3, <1>4, <1>5, <1>6, <1>7 DEF FileInv

\* The process ends: only the disk is left.
LEMMA ExitStep == TypeOK /\ FileInv /\ Exit => FileInv'
<1> SUFFICES ASSUME TypeOK, FileInv, Exit PROVE FileInv'
  OBVIOUS
<1>1. \A t \in Threads : /\ pc'[t] = "idle" /\ result'[t] = 0 /\ owed'[t] = 0
                         /\ lock'[t] = "none" /\ req'[t].num = 0
  BY DEF Exit, NoRequest, Request
<1>2. UNCHANGED <<storage, inode, nreq>>
  BY DEF Exit, disk
<1>3. NumInv' /\ PlaceInv' /\ FreshInv'
  BY <1>1, <1>2, Shapes DEF FileInv, NumInv, PlaceInv, FreshInv, Private
<1>4. WriteInv' /\ OwedInv' /\ LockInv'
  BY <1>1 DEF WriteInv, OwedInv, LockInv, Uploading
<1>5. FilesComplete' /\ DownloadWhole' /\ DestinationStaysFree'
  BY <1>1, <1>2 DEF FileInv, FilesComplete, Present, DownloadWhole,
                    DestinationStaysFree
<1> QED BY <1>3, <1>4, <1>5 DEF FileInv

\* Another program adds an entry, with an inode of its own.
LEMMA CreatedStep ==
  ASSUME TypeOK, FileInv, NEW n \in Names, NEW k \in Sizes, NEW b \in BOOLEAN,
         OthersCreate(n, k, b)
  PROVE  FileInv'
<1>1. /\ nreq < MaxRequests /\ nreq' = nreq + 1 /\ nreq + 1 \in Ids
      /\ storage[n] = None
      /\ storage' = [storage EXCEPT ![n] = nreq + 1]
      /\ inode' = [inode EXCEPT ![nreq + 1] =
                      [regular |-> b, size |-> k, len |-> k]]
      /\ "external" \in Operations
      /\ UNCHANGED <<temp, pc, req, lock, transfer, result>>
  BY Shapes DEF OthersCreate, Ids, answer
<1>2. \A t \in Threads : req[t].num # nreq + 1
  BY Shapes DEF FileInv, NumInv, AllRequests
<1>3. NumInv' /\ PlaceInv'
  BY <1>1, Shapes DEF FileInv, NumInv, PlaceInv, Private, transfer, AllRequests, Ids
<1>4. FreshInv'
  BY <1>1, <1>2, Shapes DEF FileInv, FreshInv, Private, transfer
<1>5. WriteInv'
  BY <1>1, <1>2, Shapes DEF FileInv, WriteInv, NumInv, transfer
<1>6. OwedInv' /\ LockInv' /\ DestinationStaysFree'
  BY <1>1 DEF FileInv, OwedInv, LockInv, Uploading, DestinationStaysFree, transfer
<1>7. FilesComplete'
  BY <1>1, Shapes DEF FileInv, FilesComplete, Present, NumInv, Ids
<1>8. DownloadWhole'
  BY <1>1, Shapes DEF FileInv, DownloadWhole, PlaceInv, transfer, Ids
<1> QED BY <1>3, <1>4, <1>5, <1>6, <1>7, <1>8 DEF FileInv

\* Another program removes a shared file.
LEMMA RemovedStep ==
  ASSUME TypeOK, FileInv, NEW n \in Names, OthersRemove(n)
  PROVE  FileInv'
<1>1. /\ storage' = [storage EXCEPT ![n] = None]
      /\ UNCHANGED <<temp, inode, pc, req, lock, transfer, result, nreq>>
  BY DEF OthersRemove, answer
<1>2. NumInv' /\ PlaceInv' /\ LockInv'
  BY <1>1, Shapes DEF FileInv, NumInv, PlaceInv, LockInv, Uploading, Private, transfer
<1>3. FreshInv'
  <2>1. \A m \in Names : storage'[m] \in {storage[m], None}
    BY <1>1, Shapes
  <2>2. \A t \in Threads : req[t].num # None
    BY Shapes DEF AllRequests
  <2> QED BY <1>1, <2>1, <2>2 DEF FileInv, FreshInv, Private, transfer
<1>4. WriteInv' /\ OwedInv'
  BY <1>1 DEF FileInv, WriteInv, OwedInv, transfer
<1>5. FilesComplete' /\ DownloadWhole' /\ DestinationStaysFree'
  BY <1>1, Shapes DEF FileInv, FilesComplete, Present, DownloadWhole,
                DestinationStaysFree, transfer
<1> QED BY <1>2, <1>3, <1>4, <1>5 DEF FileInv

-----------------------------------------------------------------------------
(* The invariant is inductive.                                             *)

\* The empty directory satisfies the invariant.
LEMMA FileInit == Init => FileInv
<1> SUFFICES ASSUME Init PROVE FileInv
  OBVIOUS
<1>1. \A t \in Threads : /\ pc[t] = "idle" /\ result[t] = 0 /\ owed[t] = 0
                         /\ lock[t] = "none" /\ req[t].num = 0
  BY DEF Init, NoRequest, Request
<1>2. nreq = 0 /\ \A n \in Names : storage[n] = None
  BY DEF Init
<1> QED BY <1>1, <1>2
     DEF FileInv, NumInv, PlaceInv, FreshInv, WriteInv, OwedInv, LockInv,
         FilesComplete, Present, DownloadWhole, DestinationStaysFree, Private,
         Uploading

\* The arrival of a request keeps the invariant.
LEMMA FileArrive ==
  ASSUME TypeOK, FileInv, NEW t \in Threads, Arrive(t)
  PROVE  FileInv'
<1>1. CASE \E n \in Names, k \in Sizes : Upload(t, n, k)
  <2> PICK n \in Names, k \in Sizes : Upload(t, n, k)
    BY <1>1
  <2>1. nreq' = nreq + 1 /\ nreq \in Nat
    BY Shapes DEF Upload, Receive
  <2>2. Request("upload", n, k, nreq') \in AllRequests
    BY <2>1 DEF Request, AllRequests
  <2> QED BY <2>2, ReceiveStep DEF Upload, Request
<1>2. CASE \E n \in Names : Download(t, n)
  <2> PICK n \in Names : Download(t, n)
    BY <1>2
  <2>1. nreq' = nreq + 1 /\ nreq \in Nat
    BY Shapes DEF Download, Receive
  <2>2. Request("download", n, 0, nreq') \in AllRequests
    BY <2>1, FileManagerAssumption DEF Request, AllRequests, Sizes
  <2> QED BY <2>2, ReceiveStep DEF Download, Request
<1>3. CASE List(t)
  <2>1. nreq' = nreq + 1 /\ nreq \in Nat
    BY <1>3, Shapes DEF List, Receive
  <2>2. Request("list", None, 0, nreq') \in AllRequests
    BY <2>1, FileManagerAssumption DEF Request, AllRequests, Sizes
  <2> QED BY <1>3, <2>2, ReceiveStep DEF List, Request
<1>4. CASE Refuse(t)
  <2> PICK r \in {0, -1} : Send(t, "REQUEST_REFUSED", r)
    BY <1>4 DEF Refuse, SendError
  <2> QED BY <1>4, IdleStep DEF Refuse, SendError, Send, Goto, transfer
<1> QED BY <1>1, <1>2, <1>3, <1>4 DEF Arrive

\* An error is sent and the thread leaves for the cleanup or the handler.
LEMMA ErrorStep ==
  ASSUME TypeOK, FileInv, NEW t \in Threads, NEW frame,
         NEW l \in {"cleanup", "idle"},
         SendError(t, frame, l), owed[t] = 0, pc[t] # "idle",
         l = "idle" => lock[t] = "none",
         \A u \in Threads \ {t} :
             temp'[u] = temp[u] /\ file_fd'[u] = file_fd[u],
         \A u \in Threads \ {t} :
             remaining'[u] = remaining[u] /\ write_failed'[u] = write_failed[u],
         UNCHANGED <<storage, inode, req, lock, owed, nreq>>
  PROVE  FileInv'
<1> PICK r \in {0, -1} : Send(t, frame, r)
  BY DEF SendError
<1> QED BY QuietStep DEF SendError, Send, Goto

\* The connection is given up.
LEMMA AbortStep ==
  ASSUME TypeOK, FileInv, NEW t \in Threads, NEW l \in {"cleanup", "idle"},
         Abort(t, l), pc[t] # "idle", l = "idle" => lock[t] = "none",
         UNCHANGED <<disk, req, lock, transfer, nreq>>
  PROVE  FileInv'
<1>1. PICK r \in {0, -1} : r = -1
  OBVIOUS
<1>2. /\ pc' = [pc EXCEPT ![t] = l] /\ result' = [result EXCEPT ![t] = r]
      /\ UNCHANGED <<storage, inode, req, owed, nreq, temp, file_fd>>
      /\ UNCHANGED <<lock, remaining, write_failed>>
  BY <1>1 DEF Abort, Goto, disk, transfer
<1>3. r # 0 /\ l # "success"
  BY <1>1
<1> QED BY <1>2, <1>3, QuietStep

\* A step that keeps the result: the upload is published, or it is cleaned up.
LEMMA KeepStep ==
  ASSUME TypeOK, FileInv, NEW t \in Threads,
         NEW l \in {"success", "release", "idle"},
         pc' = [pc EXCEPT ![t] = l], result' = result,
         pc[t] \in {"unlink", "cleanup", "release"},
         l = "success" => pc[t] = "unlink",
         lock' = lock \/ lock' = [lock EXCEPT ![t] = "none"],
         l = "idle" => lock'[t] = "none",
         \A u \in Threads \ {t} :
             temp'[u] = temp[u] /\ file_fd'[u] = file_fd[u],
         UNCHANGED <<storage, inode, req, remaining, write_failed, owed, nreq>>
  PROVE  FileInv'
<1>1. PICK r \in {0, -1} : r = result[t]
  BY Shapes
<1>2. result' = [result EXCEPT ![t] = r]
  BY <1>1, Shapes
<1>3. r = 0 => owed[t] = 0
  BY <1>1 DEF FileInv, OwedInv
<1>4. l = "success" => r = 0
  BY <1>1 DEF FileInv, PlaceInv
<1> QED BY <1>2, <1>3, <1>4, QuietStep

\* Every step of a thread that serves a request keeps the invariant.
LEMMA FileServe ==
  ASSUME TypeOK, FileInv, NEW t \in Threads, Serve(t)
  PROVE  FileInv'
<1>0. /\ pc[t] \notin {"recv", "cleanup", "release", "idle"} =>
            result[t] = 0 /\ owed[t] = 0
      /\ pc[t] = "recv" => owed[t] = remaining[t]
      /\ pc[t] \in {"lock", "begin", "readdir"} => lock[t] = "none"
  BY Shapes DEF FileInv, PlaceInv, OwedInv, LockInv
<1>1. CASE file_lock_acquire(t)
  <2>1. pc[t] = "lock" /\ UNCHANGED <<disk, req, transfer, nreq>>
    BY <1>1 DEF file_lock_acquire
  <2>2. CASE /\ Compatible(t, LockMode(t))
             /\ lock' = [lock EXCEPT ![t] = LockMode(t)]
             /\ Goto(t, IF req[t].op = "upload" THEN "stat" ELSE "open")
             /\ UNCHANGED answer
    <3>1. CASE req[t].op = "upload"
      BY <2>1, <2>2, <3>1, LockStep DEF LockMode, Goto, answer
    <3>2. CASE req[t].op # "upload"
      BY <2>1, <2>2, <3>2, LockStep DEF LockMode, Goto, answer
    <3> QED BY <3>1, <3>2
  <2>3. CASE SendError(t, "FILE_LOCK_FAILED", "idle") /\ lock' = lock
    BY <1>0, <2>1, <2>3, ErrorStep DEF disk, transfer
  <2> QED BY <1>1, <2>2, <2>3 DEF file_lock_acquire
<1>2. CASE CheckDestination(t)
  <2>1. pc[t] = "stat" /\ UNCHANGED <<disk, req, lock, transfer, nreq>>
    BY <1>2 DEF CheckDestination
  <2>2. CASE storage[req[t].name] = None /\ Goto(t, "clear") /\ UNCHANGED answer
    BY <2>1, <2>2, PrepareStep DEF Goto, answer, disk
  <2>3. CASE \E f \in Errors : SendError(t, f, "cleanup")
    BY <1>0, <2>1, <2>3, ErrorStep DEF disk, transfer
  <2> QED BY <1>2, <2>2, <2>3 DEF CheckDestination, Errors
<1>3. CASE ClearTemp(t)
  <2>1. /\ pc[t] = "clear"
        /\ UNCHANGED <<storage, inode, req, lock, transfer, nreq>>
        /\ \A u \in Threads \ {t} : temp'[u] = temp[u]
    BY <1>3, Shapes DEF ClearTemp
  <2>2. CASE Goto(t, "create") /\ UNCHANGED answer
    BY <2>1, <2>2, PrepareStep DEF Goto, answer
  <2>3. CASE SendError(t, "UPLOAD_ERROR", "cleanup")
    BY <1>0, <2>1, <2>3, ErrorStep DEF transfer
  <2> QED BY <1>3, <2>2, <2>3 DEF ClearTemp
<1>4. CASE CreateTemp(t)
  <2>1. /\ pc[t] = "create"
        /\ UNCHANGED <<storage, req, lock, write_failed, remaining, owed, nreq>>
    BY <1>4 DEF CreateTemp
  <2>2. CASE /\ temp' = [temp EXCEPT ![t] = req[t].num]
             /\ inode' = [inode EXCEPT ![req[t].num] =
                  [regular |-> TRUE, size |-> req[t].size, len |-> 0]]
             /\ file_fd' = [file_fd EXCEPT ![t] = req[t].num]
             /\ Goto(t, "ready")
             /\ UNCHANGED answer
    BY <2>1, <2>2, CreateStep DEF Goto, answer
  <2>3. CASE /\ SendError(t, "UPLOAD_ERROR", "cleanup")
             /\ UNCHANGED <<temp, inode, file_fd>>
    BY <1>0, <2>1, <2>3, ErrorStep
  <2> QED BY <1>4, <2>2, <2>3 DEF CreateTemp
<1>5. CASE SendReady(t)
  <2>1. pc[t] = "ready" /\ UNCHANGED <<disk, req, lock, file_fd, temp_created, nreq>>
    BY <1>5 DEF SendReady, counters
  <2>2. CASE /\ Send(t, "UPLOAD_READY", 0)
             /\ owed' = [owed EXCEPT ![t] = req[t].size]
             /\ remaining' = [remaining EXCEPT ![t] = req[t].size]
             /\ write_failed' = [write_failed EXCEPT ![t] = FALSE]
             /\ Goto(t, "recv")
    BY <2>1, <2>2, ReadyStep DEF Send, Goto
  <2>3. CASE Abort(t, "cleanup") /\ UNCHANGED <<owed, remaining, write_failed>>
    BY <2>1, <2>3, AbortStep DEF transfer
  <2> QED BY <1>5, <2>2, <2>3 DEF SendReady
<1>6. CASE ReceiveBlock(t)
  BY <1>6, BlockStep
<1>7. CASE ReceiveFails(t) \/ StreamFails(t)
  BY <1>7, AbortStep DEF ReceiveFails, StreamFails, counters
<1>8. CASE CloseTemp(t)
  <2>1. /\ pc[t] = "recv" /\ remaining[t] = 0
        /\ file_fd' = [file_fd EXCEPT ![t] = None]
        /\ UNCHANGED <<disk, req, lock, remaining, owed, nreq>>
    BY <1>8 DEF CloseTemp
  <2>2. CASE ~write_failed[t] /\ Goto(t, "link") /\ UNCHANGED <<write_failed, answer>>
    BY <2>1, <2>2, CompleteStep DEF Goto, answer
  <2>3. CASE /\ write_failed' = [write_failed EXCEPT ![t] = TRUE]
             /\ SendError(t, "UPLOAD_ERROR", "cleanup")
    <3>1. \A u \in Threads \ {t} :
             /\ write_failed'[u] = write_failed[u] /\ remaining'[u] = remaining[u]
             /\ temp'[u] = temp[u] /\ file_fd'[u] = file_fd[u]
      BY <2>1, <2>3, Shapes DEF disk
    <3> QED BY <1>0, <2>1, <2>3, <3>1, ErrorStep DEF disk
  <2> QED BY <1>8, <2>2, <2>3 DEF CloseTemp
<1>9. CASE Publish(t)
  <2>1. pc[t] = "link" /\ UNCHANGED <<temp, inode, req, lock, transfer, nreq>>
    BY <1>9 DEF Publish
  <2>2. CASE /\ storage[req[t].name] = None
             /\ storage' = [storage EXCEPT ![req[t].name] = temp[t]]
             /\ Goto(t, "unlink")
             /\ UNCHANGED answer
    BY <2>1, <2>2, PublishStep DEF Goto, answer
  <2>3. CASE storage' = storage /\ \E f \in Errors : SendError(t, f, "cleanup")
    BY <1>0, <2>1, <2>3, ErrorStep DEF transfer
  <2> QED BY <1>9, <2>2, <2>3 DEF Publish, Errors
<1>10. CASE RemoveTemp(t)
  <2>1. \A u \in Threads \ {t} : temp'[u] = temp[u] /\ file_fd'[u] = file_fd[u]
    BY <1>10, Shapes DEF RemoveTemp
  <2> QED BY <1>10, <2>1, KeepStep DEF RemoveTemp, Goto, answer
<1>11. CASE SendSuccess(t)
  <2> PICK r \in {0, -1} : Send(t, "UPLOAD_SUCCESS", r)
    BY <1>11 DEF SendSuccess
  <2>1. /\ pc[t] = "success" /\ pc' = [pc EXCEPT ![t] = "cleanup"]
        /\ result' = [result EXCEPT ![t] = r]
        /\ UNCHANGED <<storage, temp, inode, req, lock, file_fd, write_failed,
                       remaining, owed, nreq>>
    BY <1>11 DEF SendSuccess, Send, Goto, disk, transfer, counters
  <2> QED BY <1>0, <2>1, QuietStep
<1>12. CASE Cleanup(t)
  <2>1. \A u \in Threads \ {t} : temp'[u] = temp[u] /\ file_fd'[u] = file_fd[u]
    BY <1>12, Shapes DEF Cleanup
  <2> QED BY <1>12, <2>1, KeepStep DEF Cleanup, Goto, answer
<1>13. CASE OpenFile(t)
  <2>1. /\ pc[t] = "open"
        /\ UNCHANGED <<disk, lock, temp_created, write_failed, owed, nreq>>
    BY <1>13 DEF OpenFile
  <2>2. CASE /\ UNCHANGED <<file_fd, remaining, req>>
             /\ \E f \in Errors : SendError(t, f, "cleanup")
    BY <1>0, <2>1, <2>2, ErrorStep DEF disk
  <2>3. CASE /\ storage[req[t].name] # None
             /\ inode[storage[req[t].name]].regular
             /\ file_fd' = [file_fd EXCEPT ![t] = storage[req[t].name]]
             /\ req' = [req EXCEPT ![t].size = inode[storage[req[t].name]].len]
             /\ remaining' = [remaining EXCEPT ![t] = inode[storage[req[t].name]].len]
             /\ Goto(t, "stream")
             /\ UNCHANGED answer
    <3>1. \A u \in Threads \ {t} : remaining'[u] = remaining[u]
      BY <2>3, Shapes
    <3> QED BY <2>1, <2>3, <3>1, OpenStep DEF Goto, answer
  <2> QED BY <1>13, <2>2, <2>3 DEF OpenFile, Errors
<1>14. CASE StreamBlock(t)
  <2>1. \A u \in Threads \ {t} : remaining'[u] = remaining[u]
    BY <1>14, Shapes DEF StreamBlock
  <2> QED BY <1>14, <2>1, StayStep DEF StreamBlock, answer, counters
<1>15. CASE StreamEnds(t)
  <2>1. /\ pc[t] = "stream" /\ pc' = [pc EXCEPT ![t] = "cleanup"]
        /\ result' = [result EXCEPT ![t] = 0]
        /\ UNCHANGED <<storage, temp, inode, req, lock, file_fd, write_failed,
                       remaining, owed, nreq>>
    BY <1>15 DEF StreamEnds, Send, Goto, disk, transfer, counters
  <2> QED BY <1>0, <2>1, QuietStep
<1>16. CASE BeginList(t)
  <2>1. pc[t] = "begin" /\ UNCHANGED <<disk, req, lock, transfer, nreq>>
    BY <1>16 DEF BeginList
  <2>2. CASE Send(t, "FILE_LIST_BEGIN", 0) /\ Goto(t, "readdir")
    BY <2>1, <2>2, StayStep DEF Send, Goto, transfer
  <2>3. CASE Abort(t, "idle")
    BY <1>0, <2>1, <2>3, AbortStep
  <2>4. CASE SendError(t, "REQUEST_REFUSED", "idle")
    BY <1>0, <2>1, <2>4, ErrorStep DEF disk, transfer
  <2> QED BY <1>16, <2>2, <2>3, <2>4 DEF BeginList
<1>17. CASE ReadEntry(t)
  <2>1. pc[t] = "readdir" /\ UNCHANGED <<disk, req, lock, transfer, nreq>>
    BY <1>17 DEF ReadEntry, counters
  <2>2. CASE UNCHANGED <<pc, answer>>
    BY <2>1, <2>2, StayStep DEF answer, transfer
  <2>3. CASE Abort(t, "idle")
    BY <1>0, <2>1, <2>3, AbortStep
  <2> QED BY <1>17, <2>2, <2>3 DEF ReadEntry
<1>18. CASE EndList(t)
  <2>1. pc[t] = "readdir" /\ UNCHANGED <<disk, req, lock, transfer, nreq>>
    BY <1>18 DEF EndList
  <2>2. CASE SendError(t, "FILE_LIST_END", "idle")
    BY <1>0, <2>1, <2>2, ErrorStep DEF disk, transfer
  <2>3. CASE SendError(t, "FILE_LIST_READ_FAILED", "idle")
    BY <1>0, <2>1, <2>3, ErrorStep DEF disk, transfer
  <2> QED BY <1>18, <2>2, <2>3 DEF EndList, SendError
<1>19. CASE file_lock_release(t)
  <2>1. /\ pc[t] = "release" /\ pc' = [pc EXCEPT ![t] = "idle"]
        /\ lock' = [lock EXCEPT ![t] = "none"] /\ lock'[t] = "none"
        /\ UNCHANGED <<storage, temp, inode, req, file_fd, write_failed,
                       remaining, owed, result, nreq>>
    BY <1>19, Shapes
       DEF file_lock_release, Goto, disk, transfer, answer, counters
  <2> QED BY <2>1, KeepStep
<1>20. CASE ConnectionEnd(t)
  <2>1. /\ pc[t] = "idle" /\ pc' = [pc EXCEPT ![t] = "idle"]
        /\ req' = [req EXCEPT ![t] = NoRequest]
        /\ result' = [result EXCEPT ![t] = 0]
        /\ owed' = [owed EXCEPT ![t] = 0]
        /\ UNCHANGED <<disk, lock, file_fd, write_failed, remaining, nreq>>
    BY <1>20, Shapes DEF ConnectionEnd, counters
  <2> QED BY <2>1, IdleStep
<1> QED BY <1>1, <1>2, <1>3, <1>4, <1>5, <1>6, <1>7, <1>8, <1>9, <1>10, <1>11,
           <1>12, <1>13, <1>14, <1>15, <1>16, <1>17, <1>18, <1>19, <1>20
        DEF Serve

-----------------------------------------------------------------------------
(* Types.                                                                  *)

\* A sent frame, an error and an abandoned connection keep the types.
LEMMA SendTypes ==
  ASSUME TypeOK, NEW t \in Threads, NEW l \in Pcs, NEW frame \in Replies,
         pc' = [pc EXCEPT ![t] = l],
         \/ \E r \in {0, -1} : Send(t, frame, r)
         \/ Abort(t, l)
         \/ UNCHANGED answer
  PROVE  /\ pc' \in [Threads -> Pcs]
         /\ reply' \in [Threads -> Replies \union {None}]
         /\ result' \in [Threads -> {0, -1}]
<1>1. /\ pc \in [Threads -> Pcs]
      /\ reply \in [Threads -> Replies \union {None}]
      /\ result \in [Threads -> {0, -1}]
  BY DEF TypeOK, CallType
<1>2. pc' \in [Threads -> Pcs]
  BY <1>1
<1>3. CASE \E r \in {0, -1} : Send(t, frame, r)
  BY <1>1, <1>2, <1>3 DEF Send
<1>4. CASE Abort(t, l)
  BY <1>1, <1>2, <1>4 DEF Abort
<1>5. CASE UNCHANGED answer
  BY <1>1, <1>2, <1>5 DEF answer
<1> QED BY <1>3, <1>4, <1>5

\* The places and the answers keep their types.
LEMMA AnswerServe ==
  ASSUME TypeOK, NEW t \in Threads, Serve(t)
  PROVE  /\ pc' \in [Threads -> Pcs]
         /\ reply' \in [Threads -> Replies \union {None}]
         /\ result' \in [Threads -> {0, -1}]
<1>1. CASE \E l \in Pcs, frame \in Replies :
              /\ pc' = [pc EXCEPT ![t] = l]
              /\ \/ \E r \in {0, -1} : Send(t, frame, r)
                 \/ Abort(t, l)
                 \/ UNCHANGED answer
  BY <1>1, SendTypes
<1>2. CASE UNCHANGED <<pc, answer>>
  BY <1>2 DEF answer, TypeOK, CallType
<1>3. CASE ConnectionEnd(t)
  BY <1>3 DEF ConnectionEnd, TypeOK, CallType
<1>4. CASE file_lock_acquire(t) \/ CheckDestination(t)
  BY <1>1, <1>4 DEF file_lock_acquire, CheckDestination, SendError, Goto, Pcs,
                    Replies, Errors
<1>5. CASE ClearTemp(t) \/ CreateTemp(t) \/ SendReady(t)
  BY <1>1, <1>5 DEF ClearTemp, CreateTemp, SendReady, SendError, Abort, Goto,
                    Pcs, Replies, Errors
<1>6. CASE ReceiveBlock(t) \/ StreamBlock(t)
  BY <1>2, <1>6 DEF ReceiveBlock, StreamBlock
<1>7. CASE ReceiveFails(t) \/ StreamFails(t) \/ StreamEnds(t)
  BY <1>1, <1>7 DEF ReceiveFails, StreamFails, StreamEnds, Abort, Goto, Pcs,
                    Replies
<1>8. CASE CloseTemp(t) \/ Publish(t) \/ RemoveTemp(t)
  BY <1>1, <1>8 DEF CloseTemp, Publish, RemoveTemp, SendError, Goto, Pcs,
                    Replies, Errors
<1>9. CASE SendSuccess(t) \/ Cleanup(t) \/ file_lock_release(t)
  BY <1>1, <1>9 DEF SendSuccess, Cleanup, file_lock_release, Goto, Pcs, Replies
<1>10. CASE OpenFile(t)
  BY <1>1, <1>10 DEF OpenFile, SendError, Goto, Pcs, Replies, Errors
<1>11. CASE BeginList(t) \/ EndList(t)
  BY <1>1, <1>11 DEF BeginList, EndList, SendError, Abort, Goto, Pcs, Replies,
                     Errors
<1>12. CASE ReadEntry(t)
  BY <1>1, <1>2, <1>12 DEF ReadEntry, Abort, Goto, Pcs, Replies
<1> QED BY <1>3, <1>4, <1>5, <1>6, <1>7, <1>8, <1>9, <1>10, <1>11, <1>12 DEF Serve

\* The counters keep their types: a fault is counted up to its bound.
LEMMA CounterServe ==
  ASSUME TypeOK, NEW t \in Threads, Serve(t)
  PROVE  CounterType'
<1>1. nreq' = nreq /\ exits' = exits /\ removals' = removals
  BY DEF Serve, file_lock_acquire, CheckDestination, ClearTemp, CreateTemp,
         SendReady, ReceiveBlock, ReceiveFails, CloseTemp, Publish, RemoveTemp,
         SendSuccess, Cleanup, OpenFile, StreamBlock, StreamFails, StreamEnds,
         BeginList, ReadEntry, EndList, file_lock_release, ConnectionEnd, counters
<1>2. NoFault \/ Fault
  BY DEF Serve, file_lock_acquire, CheckDestination, ClearTemp, CreateTemp,
         SendReady, ReceiveBlock, ReceiveFails, CloseTemp, Publish, RemoveTemp,
         SendSuccess, Cleanup, OpenFile, StreamBlock, StreamFails, StreamEnds,
         BeginList, ReadEntry, EndList, file_lock_release, ConnectionEnd,
         counters, NoFault
<1> QED BY <1>1, <1>2, FileManagerAssumption
        DEF TypeOK, CounterType, NoFault, Fault

\* The disk keeps its types: an upload has at most its promised blocks.
LEMMA DiskServe ==
  ASSUME TypeOK, FileInv, NEW t \in Threads, Serve(t)
  PROVE  DiskType'
<1>1. CASE UNCHANGED disk
  BY <1>1 DEF disk, TypeOK, DiskType
<1>2. CASE ClearTemp(t) \/ RemoveTemp(t) \/ Cleanup(t)
  BY <1>2 DEF ClearTemp, RemoveTemp, Cleanup, TypeOK, DiskType
<1>3. CASE CreateTemp(t)
  <2>1. req[t].num \in Ids /\ req[t].size \in Sizes
    BY <1>3, Shapes DEF CreateTemp, FileInv, NumInv, AllRequests
  <2>2. [regular |-> TRUE, size |-> req[t].size, len |-> 0] \in Inodes
    BY <2>1, FileManagerAssumption DEF Inodes, Sizes
  <2> QED BY <1>3, <2>1, <2>2 DEF CreateTemp, TypeOK, DiskType
<1>4. CASE ReceiveBlock(t)
  <2>1. /\ file_fd[t] = req[t].num /\ req[t].num \in Ids
        /\ remaining[t] > 0 /\ remaining[t] \in Sizes /\ req[t].size \in Sizes
        /\ inode[req[t].num].len + remaining[t] <= req[t].size
    BY <1>4, Shapes DEF ReceiveBlock, FileInv, WriteInv, NumInv, AllRequests
  <2>2. inode[req[t].num] \in Inodes /\ inode \in [Ids -> Inodes]
    BY <2>1, Shapes
  <2>3. inode[req[t].num].len + 1 \in Sizes
    BY <2>1, <2>2, FileManagerAssumption DEF Sizes, Inodes
  <2>4. [inode EXCEPT ![req[t].num].len = @ + 1] \in [Ids -> Inodes]
    BY <2>1, <2>2, <2>3 DEF Inodes
  <2> QED BY <1>4, <2>1, <2>4 DEF ReceiveBlock, TypeOK, DiskType
<1>5. CASE Publish(t)
  BY <1>5, Shapes DEF Publish, TypeOK, DiskType
<1> QED BY <1>1, <1>2, <1>3, <1>4, <1>5
        DEF Serve, file_lock_acquire, CheckDestination, SendReady,
            ReceiveFails, CloseTemp, SendSuccess, OpenFile, StreamBlock,
            StreamFails, StreamEnds, BeginList, ReadEntry, EndList,
            file_lock_release, ConnectionEnd

\* The transfers keep their types: what is left never becomes negative.
LEMMA TransferServe ==
  ASSUME TypeOK, FileInv, NEW t \in Threads, Serve(t)
  PROVE  TransferType'
<1>1. CASE UNCHANGED transfer
  BY <1>1 DEF transfer, TypeOK, TransferType
<1>2. CASE CreateTemp(t)
  <2>1. req[t].num \in Ids
    BY <1>2, Shapes DEF CreateTemp, FileInv, NumInv
  <2> QED BY <1>2, <2>1 DEF CreateTemp, TypeOK, TransferType
<1>3. CASE SendReady(t)
  <2>1. req[t].size \in Sizes
    BY Shapes DEF AllRequests
  <2> QED BY <1>3, <2>1 DEF SendReady, TypeOK, TransferType
<1>4. CASE ReceiveBlock(t)
  <2>1. remaining[t] - 1 \in Sizes /\ owed[t] - 1 \in Sizes
    BY <1>4, Shapes, FileManagerAssumption
       DEF ReceiveBlock, FileInv, OwedInv, Sizes
  <2> QED BY <1>4, <2>1 DEF ReceiveBlock, TypeOK, TransferType
<1>5. CASE CloseTemp(t) \/ RemoveTemp(t) \/ Cleanup(t)
  BY <1>5 DEF CloseTemp, RemoveTemp, Cleanup, TypeOK, TransferType
<1>6. CASE OpenFile(t)
  <2>1. storage[req[t].name] # None /\ pc[t] = "open" =>
          /\ storage[req[t].name] \in Ids
          /\ inode[storage[req[t].name]].len \in Sizes
    BY Shapes DEF FileInv, PlaceInv, Inodes
  <2> QED BY <1>6, <2>1 DEF OpenFile, TypeOK, TransferType
<1>7. CASE StreamBlock(t)
  <2>1. remaining[t] - 1 \in Sizes
    BY <1>7, Shapes, FileManagerAssumption DEF StreamBlock, Sizes
  <2> QED BY <1>7, <2>1 DEF StreamBlock, TypeOK, TransferType
<1>8. CASE ConnectionEnd(t)
  BY <1>8, FileManagerAssumption DEF ConnectionEnd, TypeOK, TransferType, Sizes
<1> QED BY <1>1, <1>2, <1>3, <1>4, <1>5, <1>6, <1>7, <1>8
        DEF Serve, file_lock_acquire, CheckDestination, ClearTemp, Publish,
            ReceiveFails, SendSuccess, StreamFails, StreamEnds, BeginList,
            ReadEntry, EndList, file_lock_release

\* Requests, locks and listings keep their types.
LEMMA CallServe ==
  ASSUME TypeOK, FileInv, NEW t \in Threads, Serve(t)
  PROVE  /\ req' \in [Threads -> AllRequests]
         /\ lock' \in [Threads -> {"none", "shared", "exclusive"}]
         /\ list' \in [Threads -> Listings]
<1>1. CASE UNCHANGED <<req, lock, list>>
  BY <1>1 DEF TypeOK, CallType
<1>2. CASE file_lock_acquire(t) \/ file_lock_release(t)
  BY <1>2 DEF file_lock_acquire, file_lock_release, LockMode, TypeOK, CallType
<1>3. CASE OpenFile(t)
  <2>1. storage[req[t].name] # None /\ pc[t] = "open" =>
          inode[storage[req[t].name]].len \in Sizes
    BY Shapes DEF FileInv, PlaceInv, Inodes
  <2>2. \A k \in Sizes : [req EXCEPT ![t].size = k] \in [Threads -> AllRequests]
    BY Shapes DEF AllRequests
  <2> QED BY <1>3, <2>1, <2>2 DEF OpenFile, TypeOK, CallType
<1>4. CASE ConnectionEnd(t)
  <2>1. NoRequest \in AllRequests
    BY FileManagerAssumption DEF NoRequest, Request, AllRequests, Sizes
  <2> QED BY <1>4, <2>1 DEF ConnectionEnd, TypeOK, CallType
<1>5. CASE BeginList(t)
  <2>1. [NoListing EXCEPT !.present = Present] \in Listings
    BY DEF NoListing, Listings, Present
  <2> QED BY <1>5, <2>1 DEF BeginList, TypeOK, CallType
<1>6. CASE ReadEntry(t)
  <2>1. ASSUME NEW n \in Names
        PROVE  Listed(t, n) \in Listings /\ Skipped(t, n) \in Listings
    <3>1. list[t] \in Listings
      BY DEF TypeOK, CallType
    <3>2. [list[t] EXCEPT !.seen = @ \union {n}] \in Listings
      BY <3>1 DEF Listings
    <3>3. n \in Present =>
            [id |-> storage[n], size |-> inode[storage[n]].len]
              \in [id : Ids, size : Sizes]
      BY Shapes DEF Present, Inodes
    <3>4. Skipped(t, n) \in Listings
      BY <3>1 DEF Skipped, Listings
    <3> QED BY <3>2, <3>3, <3>4 DEF Listed, Listings
  <2> QED BY <1>6, <2>1 DEF ReadEntry, TypeOK, CallType
<1> QED BY <1>1, <1>2, <1>3, <1>4, <1>5, <1>6
        DEF Serve, CheckDestination, ClearTemp, CreateTemp, SendReady,
            ReceiveBlock, ReceiveFails, CloseTemp, Publish, RemoveTemp,
            SendSuccess, Cleanup, StreamBlock, StreamFails, StreamEnds, EndList

\* The arrival of a request keeps the types.
LEMMA TypeArrive ==
  ASSUME TypeOK, NEW t \in Threads, Arrive(t)
  PROVE  TypeOK'
<1>1. /\ nreq < MaxRequests /\ nreq' = nreq + 1
      /\ UNCHANGED <<disk, lock, transfer, list, faults, exits, removals>>
  BY DEF Arrive, Upload, Download, List, Receive, Refuse
<1>2. nreq' \in 0 .. MaxRequests
  BY <1>1, Shapes
<1>3. DiskType' /\ TransferType' /\ CounterType'
  BY <1>1, <1>2 DEF TypeOK, DiskType, TransferType, CounterType, disk, transfer
<1>4. CASE Refuse(t)
  <2>1. NoRequest \in AllRequests
    BY FileManagerAssumption DEF NoRequest, Request, AllRequests, Sizes
  <2>2. /\ pc' \in [Threads -> Pcs]
        /\ reply' \in [Threads -> Replies \union {None}]
        /\ result' \in [Threads -> {0, -1}]
    <3> DEFINE l == "idle"
               frame == "REQUEST_REFUSED"
    <3>1. l \in Pcs /\ frame \in Replies
      BY DEF Pcs, Replies, Errors
    <3>2. pc' = [pc EXCEPT ![t] = l] /\ \E r \in {0, -1} : Send(t, frame, r)
      BY <1>4 DEF Refuse, SendError, Goto
    <3> HIDE DEF l, frame
    <3> QED BY <3>1, <3>2, SendTypes
  <2>3. req' \in [Threads -> AllRequests]
    BY <1>4, <2>1, Shapes DEF Refuse
  <2> QED BY <1>1, <1>3, <2>2, <2>3 DEF TypeOK, CallType
<1>5. CASE \E q \in AllRequests, l \in Pcs : Receive(t, q) /\ Goto(t, l)
  BY <1>1, <1>3, <1>5 DEF Receive, Goto, TypeOK, CallType
<1>6. CASE \E n \in Names, k \in Sizes : Upload(t, n, k)
  <2> PICK n \in Names, k \in Sizes : Upload(t, n, k)
    BY <1>6
  <2>1. Request("upload", n, k, nreq') \in AllRequests
    BY <1>2 DEF Request, AllRequests
  <2> QED BY <1>5, <2>1 DEF Upload, Pcs
<1>7. CASE \E n \in Names : Download(t, n)
  <2> PICK n \in Names : Download(t, n)
    BY <1>7
  <2>1. Request("download", n, 0, nreq') \in AllRequests
    BY <1>2, FileManagerAssumption DEF Request, AllRequests, Sizes
  <2> QED BY <1>5, <2>1 DEF Download, Pcs
<1>8. CASE List(t)
  <2>1. Request("list", None, 0, nreq') \in AllRequests
    BY <1>2, FileManagerAssumption DEF Request, AllRequests, Sizes
  <2> QED BY <1>5, <1>8, <2>1 DEF List, Pcs
<1> QED BY <1>4, <1>6, <1>7, <1>8 DEF Arrive

\* Other programs and the end of the process keep the types.
LEMMA TypeWorld ==
  ASSUME TypeOK, World
  PROVE  TypeOK'
<1>1. CASE Exit
  <2>1. NoRequest \in AllRequests /\ NoListing \in Listings /\ 0 \in Sizes
    BY FileManagerAssumption
       DEF NoRequest, Request, AllRequests, NoListing, Listings, Sizes
  <2>2. DiskType' /\ CounterType'
    BY <1>1, FileManagerAssumption DEF Exit, TypeOK, DiskType, CounterType, disk
  <2>3. TransferType'
    BY <1>1, <2>1 DEF Exit, TransferType
  <2>4. CallType'
    BY <1>1, <2>1 DEF Exit, CallType, Pcs
  <2> QED BY <2>2, <2>3, <2>4 DEF TypeOK
<1>2. CASE \E n \in Names, k \in Sizes, r \in BOOLEAN : OthersCreate(n, k, r)
  <2> PICK n \in Names, k \in Sizes, r \in BOOLEAN : OthersCreate(n, k, r)
    BY <1>2
  <2>1. nreq' \in 0 .. MaxRequests /\ nreq' \in Ids
    BY Shapes DEF OthersCreate, Ids
  <2>2. [regular |-> r, size |-> k, len |-> k] \in Inodes
    BY DEF Inodes
  <2>3. DiskType'
    BY <2>1, <2>2 DEF OthersCreate, TypeOK, DiskType
  <2>4. CounterType'
    BY <2>1 DEF OthersCreate, TypeOK, CounterType
  <2>5. TransferType' /\ CallType'
    BY DEF OthersCreate, TypeOK, TransferType, CallType, transfer, answer
  <2> QED BY <2>3, <2>4, <2>5 DEF TypeOK
<1>3. CASE \E n \in Names : OthersRemove(n)
  <2> PICK n \in Names : OthersRemove(n)
    BY <1>3
  <2>1. DiskType'
    BY DEF OthersRemove, TypeOK, DiskType
  <2>2. CounterType'
    BY FileManagerAssumption DEF OthersRemove, TypeOK, CounterType
  <2>3. TransferType' /\ CallType'
    BY DEF OthersRemove, TypeOK, TransferType, CallType, transfer, answer
  <2> QED BY <2>1, <2>2, <2>3 DEF TypeOK
<1> QED BY <1>1, <1>2, <1>3 DEF World

\* The initial state has the right types.
LEMMA TypeInit == Init => TypeOK
<1> SUFFICES ASSUME Init PROVE TypeOK
  OBVIOUS
<1>1. /\ NoRequest \in AllRequests /\ NoListing \in Listings /\ 0 \in Sizes
      /\ EmptyInode \in Inodes
  BY FileManagerAssumption
     DEF NoRequest, Request, AllRequests, NoListing, Listings, Sizes,
         EmptyInode, Inodes
<1>2. DiskType /\ TransferType
  BY <1>1 DEF Init, DiskType, TransferType
<1>3. CallType
  BY <1>1 DEF Init, CallType, Pcs
<1>4. CounterType
  BY FileManagerAssumption DEF Init, CounterType
<1> QED BY <1>2, <1>3, <1>4 DEF TypeOK

-----------------------------------------------------------------------------
(* Theorems.                                                               *)

\* Types and invariant are inductive together: that an upload writes no more
\* than it promised is part of the types, and needs the invariant.
LEMMA FileStep == TypeOK /\ FileInv /\ [Next]_vars => TypeOK' /\ FileInv'
<1> SUFFICES ASSUME TypeOK, FileInv, [Next]_vars PROVE TypeOK' /\ FileInv'
  OBVIOUS
<1>1. ASSUME NEW t \in Threads, Arrive(t) PROVE TypeOK' /\ FileInv'
  BY <1>1, TypeArrive, FileArrive
<1>2. ASSUME NEW t \in Threads, Serve(t) PROVE TypeOK' /\ FileInv'
  <2>1. DiskType' /\ TransferType' /\ CounterType'
    BY <1>2, DiskServe, TransferServe, CounterServe
  <2>2. CallType'
    BY <1>2, AnswerServe, CallServe DEF CallType
  <2> QED BY <1>2, <2>1, <2>2, FileServe DEF TypeOK
<1>3. CASE World
  BY <1>3, TypeWorld, ExitStep, CreatedStep, RemovedStep DEF World
<1>4. CASE UNCHANGED vars
  <2>1. TypeOK'
    BY <1>4 DEF vars, disk, transfer, answer, counters, TypeOK, DiskType,
                TransferType, CallType, CounterType
  <2>2. NumInv' /\ PlaceInv' /\ FreshInv' /\ WriteInv' /\ OwedInv' /\ LockInv'
    BY <1>4 DEF vars, disk, transfer, answer, counters, FileInv, NumInv,
                PlaceInv, FreshInv, WriteInv, OwedInv, LockInv
  <2>3. FilesComplete' /\ DownloadWhole' /\ DestinationStaysFree'
    BY <1>4 DEF vars, disk, transfer, FileInv, FilesComplete, Present,
                DownloadWhole, DestinationStaysFree
  <2> QED BY <2>1, <2>2, <2>3 DEF FileInv
<1> QED BY <1>1, <1>2, <1>3, <1>4 DEF Next, Finished

\* The types and the inductive invariant hold in every reachable state, for
\* any number of threads, names, blocks, requests, faults and restarts.
THEOREM FileInvariant == Spec => [](TypeOK /\ FileInv)
<1>1. Init => TypeOK /\ FileInv
  BY TypeInit, FileInit
<1> QED BY <1>1, FileStep, PTL DEF Spec

\* Every variable keeps its type: file_manager_handle_upload never writes or
\* reads more blocks than the client promised.
THEOREM FileTypes == Spec => []TypeOK
  BY FileInvariant, PTL

\* A file under a shared name has every block that was promised for it: the
\* temporary file that linkat() publishes was written completely.
THEOREM FilesStayComplete == Spec => []FilesComplete
<1>1. FileInv => FilesComplete
  BY DEF FileInv
<1> QED BY <1>1, FileInvariant, PTL

\* The exclusive lock keeps the destination free from the fstatat() check to
\* linkat(), if only the server writes to the directory.
THEOREM DestinationFree == Spec => []DestinationStaysFree
<1>1. FileInv => DestinationStaysFree
  BY DEF FileInv
<1> QED BY <1>1, FileInvariant, PTL

\* file_manager_handle_download streams a complete regular file of the size
\* it announced.
THEOREM DownloadsWhole == Spec => []DownloadWhole
<1>1. FileInv => DownloadWhole
  BY DEF FileInv
<1> QED BY <1>1, FileInvariant, PTL

\* A handler that returns to its receive loop has read every promised block,
\* even after a failed write.
THEOREM StreamsAligned == Spec => []StreamAligned
<1>1. FileInv => StreamAligned
  BY DEF FileInv, OwedInv, StreamAligned
<1> QED BY <1>1, FileInvariant, PTL

\* No step changes the inode behind a shared name, and a step of a thread
\* keeps the name.
LEMMA KeptStep ==
  ASSUME TypeOK, FileInv, [Next]_vars, NEW n \in Names, storage[n] # None
  PROVE  /\ inode'[storage[n]] = inode[storage[n]]
         /\ pc' # pc => storage'[n] = storage[n]
<1>1. storage[n] \in Ids /\ storage[n] <= nreq
  BY Shapes DEF FileInv, NumInv
<1>2. CASE UNCHANGED <<storage, inode>>
  BY <1>2
<1>3. ASSUME NEW t \in Threads, CreateTemp(t)
      PROVE  inode'[storage[n]] = inode[storage[n]] /\ storage' = storage
  <2>1. storage[n] # req[t].num
    BY <1>3 DEF CreateTemp, FileInv, FreshInv, Private
  <2> QED BY <1>1, <1>3, <2>1, Shapes DEF CreateTemp
<1>4. ASSUME NEW t \in Threads, ReceiveBlock(t)
      PROVE  inode'[storage[n]] = inode[storage[n]] /\ storage' = storage
  <2>1. storage[n] # file_fd[t]
    BY <1>4 DEF ReceiveBlock, FileInv, FreshInv, WriteInv, Private
  <2> QED BY <1>1, <1>4, <2>1, Shapes DEF ReceiveBlock
<1>5. ASSUME NEW t \in Threads, Publish(t)
      PROVE  inode' = inode /\ storage'[n] = storage[n]
  BY <1>5, Shapes DEF Publish
<1>6. ASSUME NEW t \in Threads, Serve(t)
      PROVE  \/ CreateTemp(t) \/ ReceiveBlock(t) \/ Publish(t)
             \/ UNCHANGED <<storage, inode>>
  BY <1>6 DEF Serve, file_lock_acquire, CheckDestination, ClearTemp, SendReady,
       ReceiveFails, CloseTemp, RemoveTemp, SendSuccess, Cleanup, OpenFile,
       StreamBlock, StreamFails, StreamEnds, BeginList, ReadEntry, EndList,
       file_lock_release, ConnectionEnd, disk
<1>7. ASSUME NEW t \in Threads, Arrive(t) PROVE UNCHANGED <<storage, inode>>
  BY <1>7 DEF Arrive, Upload, Download, List, Receive, Refuse, disk
<1>8. CASE World
  <2>1. CASE Exit
    BY <2>1 DEF Exit, disk
  <2>2. ASSUME NEW m \in Names, NEW k \in Sizes, NEW b \in BOOLEAN,
               OthersCreate(m, k, b)
        PROVE  inode'[storage[n]] = inode[storage[n]] /\ pc' = pc
    BY <1>1, <2>2, Shapes DEF OthersCreate, Ids
  <2>3. ASSUME NEW m \in Names, OthersRemove(m) PROVE inode' = inode /\ pc' = pc
    BY <2>3 DEF OthersRemove
  <2> QED BY <1>8, <2>1, <2>2, <2>3 DEF World
<1>9. CASE UNCHANGED vars
  BY <1>9 DEF vars, disk
<1> QED BY <1>2, <1>3, <1>4, <1>5, <1>6, <1>7, <1>8, <1>9
        DEF Next, Finished

\* No thread replaces, removes or changes a shared file: an upload writes to
\* an inode without a shared name, and linkat() needs a free name.
THEOREM FilesAreKept == Spec => FilesKept
<1>1. TypeOK /\ FileInv /\ [Next]_vars =>
        [\A n \in Names : storage[n] # None =>
           /\ inode'[storage[n]] = inode[storage[n]]
           /\ pc' # pc => storage'[n] = storage[n]]_vars
  BY KeptStep
<1> QED BY <1>1, FileInvariant, PTL DEF Spec, FilesKept

-----------------------------------------------------------------------------
(* The file manager implements SharedFiles.                                *)

\* The file of a download keeps its inode in every step.
LEMMA OpenKept ==
  ASSUME TypeOK, FileInv, [Next]_vars, NEW r \in Threads, pc[r] = "stream"
  PROVE  file_fd[r] \in Ids /\ inode'[file_fd[r]] = inode[file_fd[r]]
<1>1. file_fd[r] \in Ids /\ file_fd[r] <= nreq /\ file_fd[r] \in Nat
  BY Shapes DEF FileInv, PlaceInv, Ids, TypeOK
<1>2. CASE UNCHANGED inode
  BY <1>1, <1>2
<1>3. ASSUME NEW t \in Threads, CreateTemp(t)
      PROVE  inode'[file_fd[r]] = inode[file_fd[r]]
  <2>1. file_fd[r] # req[t].num
    BY <1>3 DEF CreateTemp, FileInv, FreshInv, Private
  <2> QED BY <1>1, <1>3, <2>1, Shapes DEF CreateTemp
<1>4. ASSUME NEW t \in Threads, ReceiveBlock(t)
      PROVE  inode'[file_fd[r]] = inode[file_fd[r]]
  <2>1. file_fd[r] # file_fd[t]
    BY <1>4 DEF ReceiveBlock, FileInv, FreshInv, WriteInv, Private
  <2> QED BY <1>1, <1>4, <2>1, Shapes DEF ReceiveBlock
<1>5. ASSUME NEW t \in Threads, Serve(t)
      PROVE  CreateTemp(t) \/ ReceiveBlock(t) \/ UNCHANGED inode
  BY <1>5 DEF Serve, file_lock_acquire, CheckDestination, ClearTemp, SendReady,
       ReceiveFails, CloseTemp, RemoveTemp, SendSuccess, Cleanup, OpenFile,
       StreamBlock, StreamFails, StreamEnds, BeginList, ReadEntry, EndList,
       file_lock_release, ConnectionEnd, Publish, disk
<1>6. ASSUME NEW t \in Threads, Arrive(t) PROVE UNCHANGED inode
  BY <1>6 DEF Arrive, Upload, Download, List, Receive, Refuse, disk
<1>7. CASE World
  <2>1. CASE Exit
    BY <1>1, <2>1 DEF Exit, disk
  <2>2. ASSUME NEW m \in Names, NEW k \in Sizes, NEW b \in BOOLEAN,
               OthersCreate(m, k, b)
        PROVE  inode'[file_fd[r]] = inode[file_fd[r]]
    BY <1>1, <2>2, Shapes DEF OthersCreate, Ids
  <2>3. ASSUME NEW m \in Names, OthersRemove(m) PROVE inode' = inode
    BY <2>3 DEF OthersRemove
  <2> QED BY <1>1, <1>7, <2>1, <2>2, <2>3 DEF World
<1>8. CASE UNCHANGED vars
  BY <1>1, <1>8 DEF vars, disk
<1> QED BY <1>1, <1>2, <1>3, <1>4, <1>5, <1>6, <1>7, <1>8 DEF Next, Finished

\* What a step leaves alone, as seen from outside.
LEMMA ViewKept ==
  ASSUME TypeOK, FileInv, [Next]_vars
  PROVE  /\ storage' = storage => DirectoryFiles' = DirectoryFiles
         /\ \A r \in Threads :
              pc[r] = "stream" /\ pc'[r] = "stream" /\ file_fd'[r] = file_fd[r]
              => FilesRead'[r] = FilesRead[r]
         /\ \A r \in Threads :
              pc[r] # "stream" /\ pc'[r] # "stream" => FilesRead'[r] = FilesRead[r]
<1>1. \A n \in Names : storage[n] # None => inode'[storage[n]] = inode[storage[n]]
  BY KeptStep
<1>2. \A r \in Threads : pc[r] = "stream" => inode'[file_fd[r]] = inode[file_fd[r]]
  BY OpenKept
<1> QED BY <1>1, <1>2 DEF DirectoryFiles, FilesRead, Shown

\* A step of a thread that neither streams before nor after it, and leaves
\* the shared names alone, is not seen from outside.
LEMMA HiddenStep ==
  ASSUME TypeOK, FileInv, [Next]_vars, NEW t \in Threads, NEW l,
         storage' = storage, pc[t] # "stream", l # "stream",
         pc' = [pc EXCEPT ![t] = l],
         \A r \in Threads \ {t} : file_fd'[r] = file_fd[r]
  PROVE  UNCHANGED <<DirectoryFiles, FilesRead>>
<1>1. \A r \in Threads : FilesRead'[r] = FilesRead[r]
  BY ViewKept, Shapes
<1>2. FilesRead' = FilesRead
  BY <1>1 DEF FilesRead
<1> QED BY <1>2, ViewKept

\* A download ends.
LEMMA CloseStep ==
  ASSUME TypeOK, FileInv, [Next]_vars, NEW t \in Threads, NEW l,
         storage' = storage, l # "stream", pc' = [pc EXCEPT ![t] = l],
         \A r \in Threads \ {t} : file_fd'[r] = file_fd[r]
  PROVE  Shared!Close(t)
<1>1. FilesRead'[t] = None
  BY Shapes DEF FilesRead
<1>2. \A r \in Threads \ {t} : FilesRead'[r] = FilesRead[r]
  BY ViewKept, Shapes
<1>3. FilesRead' = [FilesRead EXCEPT ![t] = None]
  BY <1>1, <1>2 DEF FilesRead
<1> QED BY <1>3, ViewKept DEF Shared!Close

\* A complete inode gets a free name while nobody starts or ends a download.
LEMMA AppearStep ==
  ASSUME TypeOK, FileInv, [Next]_vars, NEW n \in Names, NEW i \in Ids,
         storage[n] = None, storage' = [storage EXCEPT ![n] = i],
         inode'[i] \in Inodes, inode'[i].len = inode'[i].size,
         FilesRead' = FilesRead
  PROVE  Shared!Publish(n)
<1>1. DirectoryFiles[n] = None
  BY DEF DirectoryFiles
<1>2. DirectoryFiles'[n] \in Shared!Complete
  <2>1. i # None /\ storage'[n] = i
    BY Shapes DEF Ids
  <2>2. DirectoryFiles'[n] = [id |-> i, regular |-> inode'[i].regular,
                              size |-> inode'[i].size, len |-> inode'[i].len]
    BY <2>1 DEF DirectoryFiles, Shown
  <2> QED BY <2>2 DEF Shared!Complete, Shared!Files, Inodes
<1>3. \A m \in Names : storage[m] # None => inode'[storage[m]] = inode[storage[m]]
  BY KeptStep
<1>4. \A m \in Names \ {n} : DirectoryFiles'[m] = DirectoryFiles[m]
  BY <1>3, Shapes DEF DirectoryFiles, Shown
<1>5. DirectoryFiles' = [DirectoryFiles EXCEPT ![n] = DirectoryFiles'[n]]
  <2>1. /\ DirectoryFiles = [m \in Names |-> DirectoryFiles[m]]
        /\ DirectoryFiles' = [m \in Names |-> DirectoryFiles'[m]]
    BY DEF DirectoryFiles
  <2> QED BY <1>4, <2>1
<1> QED BY <1>1, <1>2, <1>5 DEF Shared!Publish

\* An upload publishes its file: linkat() of the finished temporary file.
LEMMA SharedPublish ==
  ASSUME TypeOK, FileInv, [Next]_vars, NEW t \in Threads, Publish(t)
  PROVE  \/ Shared!Publish(req[t].name)
         \/ UNCHANGED <<DirectoryFiles, FilesRead>>
<1>1. CASE storage' = storage
  BY <1>1, HiddenStep, Shapes DEF Publish, SendError, Goto, transfer
<1>2. CASE storage' # storage
  <2>1. /\ storage[req[t].name] = None
        /\ storage' = [storage EXCEPT ![req[t].name] = temp[t]]
        /\ pc[t] = "link" /\ pc' = [pc EXCEPT ![t] = "unlink"]
        /\ inode' = inode /\ file_fd' = file_fd
    BY <1>2 DEF Publish, SendError, Goto, transfer
  <2>2. /\ req[t].name \in Names
        /\ temp[t] = req[t].num /\ req[t].num \in Ids
        /\ inode[req[t].num].size = req[t].size
        /\ inode[req[t].num].len = req[t].size
    BY <2>1 DEF FileInv, NumInv, PlaceInv, WriteInv, Private
  <2>3. inode'[temp[t]] \in Inodes
    BY <2>1, <2>2, Shapes
  <2>4. \A r \in Threads : FilesRead'[r] = FilesRead[r]
    BY <2>1, ViewKept, Shapes
  <2>5. FilesRead' = FilesRead
    BY <2>4 DEF FilesRead
  <2>6. Shared!Publish(req[t].name)
    BY <2>1, <2>2, <2>3, <2>5, AppearStep
  <2> QED BY <2>6
<1> QED BY <1>1, <1>2

\* A download opens the complete file that has the name now.
LEMMA SharedOpen ==
  ASSUME TypeOK, FileInv, [Next]_vars, NEW t \in Threads, OpenFile(t)
  PROVE  \/ req[t].name \in Names /\ Shared!Open(t, req[t].name)
         \/ UNCHANGED <<DirectoryFiles, FilesRead>>
<1>1. CASE file_fd' = file_fd /\ \E l \in Pcs \ {"stream"} : Goto(t, l)
  <2>1. PICK l \in Pcs \ {"stream"} : pc' = [pc EXCEPT ![t] = l]
    BY <1>1 DEF Goto
  <2>2. storage' = storage /\ pc[t] = "open"
    BY DEF OpenFile, disk
  <2> QED BY <1>1, <2>1, <2>2, HiddenStep
<1>2. CASE storage[req[t].name] # None /\ Goto(t, "stream")
           /\ inode[storage[req[t].name]].regular
           /\ file_fd' = [file_fd EXCEPT ![t] = storage[req[t].name]]
  <2> DEFINE n == req[t].name
             i == storage[n]
  <2>1. pc[t] = "open" /\ inode' = inode /\ storage' = storage
        /\ pc' = [pc EXCEPT ![t] = "stream"]
    BY <1>2 DEF OpenFile, disk, Goto
  <2>2. n \in Names /\ i \in Ids
    BY <1>2, <2>1, Shapes DEF FileInv, PlaceInv
  <2>3. inode[i].len = inode[i].size /\ inode[i] \in Inodes
    BY <1>2, <2>2, Shapes DEF FileInv, FilesComplete, Present
  <2>4. DirectoryFiles[n] = [id |-> i, regular |-> inode[i].regular,
                             size |-> inode[i].size, len |-> inode[i].len]
    BY <1>2, <2>2 DEF DirectoryFiles, Shown
  <2>5. DirectoryFiles[n] \in Shared!Complete /\ DirectoryFiles[n].regular
    BY <1>2, <2>2, <2>3, <2>4 DEF Shared!Complete, Shared!Files, Inodes
  <2>6. FilesRead[t] = None
    BY <2>1 DEF FilesRead
  <2>7. FilesRead'[t] = DirectoryFiles[n]
    BY <1>2, <2>1, <2>4, Shapes DEF FilesRead, Shown
  <2>8. \A r \in Threads \ {t} : FilesRead'[r] = FilesRead[r]
    BY <1>2, <2>1, ViewKept, Shapes
  <2>9. FilesRead' = [FilesRead EXCEPT ![t] = DirectoryFiles[n]]
    <3>1. /\ FilesRead = [r \in Threads |-> FilesRead[r]]
          /\ FilesRead' = [r \in Threads |-> FilesRead'[r]]
      BY DEF FilesRead
    <3> QED BY <2>7, <2>8, <3>1
  <2>10. DirectoryFiles' = DirectoryFiles
    BY <2>1, ViewKept
  <2> QED BY <2>2, <2>5, <2>6, <2>9, <2>10 DEF Shared!Open
<1> QED BY <1>1, <1>2 DEF OpenFile, SendError, Pcs

\* Every other step of a thread: seen as the end of a download, or not at all.
LEMMA SharedServe ==
  ASSUME TypeOK, FileInv, [Next]_vars, NEW t \in Threads,
         Serve(t) \/ Arrive(t), ~Publish(t), ~OpenFile(t)
  PROVE  Shared!Close(t) \/ UNCHANGED <<DirectoryFiles, FilesRead>>
<1>1. CASE StreamBlock(t)
  <2>1. storage' = storage /\ pc' = pc /\ file_fd' = file_fd
    BY <1>1 DEF StreamBlock, disk
  <2>2. \A r \in Threads : FilesRead'[r] = FilesRead[r]
    BY <2>1, ViewKept
  <2> QED BY <2>1, <2>2, ViewKept DEF FilesRead
<1>2. CASE StreamFails(t) \/ StreamEnds(t)
  <2>1. /\ storage' = storage /\ file_fd' = file_fd
        /\ pc' = [pc EXCEPT ![t] = "cleanup"]
    BY <1>2 DEF StreamFails, StreamEnds, Abort, Goto, disk, transfer
  <2> QED BY <2>1, CloseStep
<1>3. ASSUME pc[t] # "stream", storage' = storage,
             \A r \in Threads \ {t} : file_fd'[r] = file_fd[r],
             pc' = pc \/ \E l \in Pcs \ {"stream"} : pc' = [pc EXCEPT ![t] = l]
      PROVE  UNCHANGED <<DirectoryFiles, FilesRead>>
  <2>1. PICK l \in Pcs \ {"stream"} : pc' = [pc EXCEPT ![t] = l]
    BY <1>3, Shapes
  <2> QED BY <1>3, <2>1, HiddenStep
<1>4. CASE file_lock_acquire(t) \/ CheckDestination(t) \/ ClearTemp(t)
           \/ CreateTemp(t) \/ SendReady(t) \/ ReceiveBlock(t) \/ ReceiveFails(t)
  <2>1. pc[t] # "stream" /\ storage' = storage
    BY <1>4 DEF file_lock_acquire, CheckDestination, ClearTemp, CreateTemp,
         SendReady, ReceiveBlock, ReceiveFails, disk
  <2>2. \A r \in Threads \ {t} : file_fd'[r] = file_fd[r]
    BY <1>4, Shapes DEF file_lock_acquire, CheckDestination, ClearTemp,
         CreateTemp, SendReady, ReceiveBlock, ReceiveFails, transfer
  <2>3. pc' = pc \/ \E l \in Pcs \ {"stream"} : pc' = [pc EXCEPT ![t] = l]
    BY <1>4 DEF file_lock_acquire, CheckDestination, ClearTemp, CreateTemp,
         SendReady, ReceiveBlock, ReceiveFails, Goto, SendError, Abort, Pcs
  <2> QED BY <1>3, <2>1, <2>2, <2>3
<1>5. CASE CloseTemp(t) \/ RemoveTemp(t) \/ SendSuccess(t) \/ Cleanup(t)
           \/ file_lock_release(t) \/ ConnectionEnd(t)
  <2>1. pc[t] # "stream" /\ storage' = storage
    BY <1>5 DEF CloseTemp, RemoveTemp, SendSuccess, Cleanup,
         file_lock_release, ConnectionEnd, disk
  <2>2. \A r \in Threads \ {t} : file_fd'[r] = file_fd[r]
    BY <1>5, Shapes DEF CloseTemp, RemoveTemp, SendSuccess, Cleanup,
         file_lock_release, ConnectionEnd, transfer
  <2>3. pc' = pc \/ \E l \in Pcs \ {"stream"} : pc' = [pc EXCEPT ![t] = l]
    BY <1>5 DEF CloseTemp, RemoveTemp, SendSuccess, Cleanup,
         file_lock_release, ConnectionEnd, Goto, SendError, Pcs
  <2> QED BY <1>3, <2>1, <2>2, <2>3
<1>6. CASE BeginList(t) \/ ReadEntry(t) \/ EndList(t) \/ Arrive(t)
  <2>1. pc[t] # "stream" /\ storage' = storage /\ file_fd' = file_fd
    BY <1>6 DEF BeginList, ReadEntry, EndList, Arrive, Upload, Download, List,
         Receive, Refuse, disk, transfer
  <2>2. pc' = pc \/ \E l \in Pcs \ {"stream"} : pc' = [pc EXCEPT ![t] = l]
    BY <1>6 DEF BeginList, ReadEntry, EndList, Arrive, Upload, Download, List,
         Receive, Refuse, Goto, SendError, Abort, Pcs
  <2> QED BY <1>3, <2>1, <2>2
<1> QED BY <1>1, <1>2, <1>4, <1>5, <1>6 DEF Serve

\* Exits of the server and other programs.
LEMMA SharedWorld ==
  ASSUME TypeOK, FileInv, [Next]_vars, World
  PROVE  Shared!Next
<1>1. CASE Exit
  <2>1. storage' = storage /\ pc' = [t \in Threads |-> "idle"]
    BY <1>1 DEF Exit, disk
  <2>2. FilesRead' = [t \in Threads |-> None]
    BY <2>1 DEF FilesRead
  <2> QED BY <2>1, <2>2, ViewKept DEF Shared!Next, Shared!CloseAll
<1>2. ASSUME pc' = pc, file_fd' = file_fd PROVE FilesRead' = FilesRead
  <2>1. \A r \in Threads : FilesRead'[r] = FilesRead[r]
    BY <1>2, ViewKept
  <2> QED BY <2>1 DEF FilesRead
<1>3. ASSUME NEW n \in Names, NEW k \in Sizes, NEW b \in BOOLEAN,
             OthersCreate(n, k, b)
      PROVE  Shared!Publish(n)
  <2>1. nreq + 1 \in Ids
    BY <1>3, Shapes DEF OthersCreate, Ids
  <2>2. /\ storage[n] = None
        /\ storage' = [storage EXCEPT ![n] = nreq + 1]
        /\ inode'[nreq + 1] = [regular |-> b, size |-> k, len |-> k]
    BY <1>3, <2>1, Shapes DEF OthersCreate
  <2>3. FilesRead' = FilesRead
    BY <1>2, <1>3 DEF OthersCreate, transfer
  <2>4. inode'[nreq + 1] \in Inodes
        /\ inode'[nreq + 1].len = inode'[nreq + 1].size
    BY <2>2 DEF Inodes
  <2> QED BY <2>1, <2>2, <2>3, <2>4, AppearStep
<1>4. ASSUME NEW n \in Names, OthersRemove(n)
      PROVE  Shared!Remove(n)
  <2>1. storage' = [storage EXCEPT ![n] = None] /\ inode' = inode
    BY <1>4 DEF OthersRemove
  <2>2. DirectoryFiles' = [DirectoryFiles EXCEPT ![n] = None]
    <3>1. DirectoryFiles'[n] = None
      BY <2>1, Shapes DEF DirectoryFiles
    <3>2. \A m \in Names \ {n} : DirectoryFiles'[m] = DirectoryFiles[m]
      BY <2>1, Shapes DEF DirectoryFiles, Shown
    <3> QED BY <3>1, <3>2 DEF DirectoryFiles
  <2> QED BY <1>2, <1>4, <2>2 DEF OthersRemove, transfer, Shared!Remove
<1> QED BY <1>1, <1>3, <1>4 DEF World, Shared!Next

\* The file manager implements the abstract directory: a name gets a complete
\* file in one step and only if it is free, keeps it unchanged until another
\* program removes it, and a download reads one complete file, for all
\* interleavings of requests, failing calls, exits and other programs.
THEOREM SharedFilesImplemented == Spec => ImplementsSharedFiles
<1>1. Init => Shared!Init
  BY DEF Init, Shared!Init, DirectoryFiles, FilesRead
<1>2. ASSUME TypeOK, FileInv, [Next]_vars
      PROVE  Shared!Next \/ UNCHANGED <<DirectoryFiles, FilesRead>>
  <2>1. CASE World
    BY <1>2, <2>1, SharedWorld
  <2>2. ASSUME NEW t \in Threads, Serve(t) \/ Arrive(t)
        PROVE  Shared!Next \/ UNCHANGED <<DirectoryFiles, FilesRead>>
    <3>1. CASE Publish(t)
      <4>1. pc[t] = "link" => req[t].name \in Names
        BY <1>2 DEF FileInv, PlaceInv, Private
      <4> QED BY <1>2, <3>1, <4>1, SharedPublish DEF Publish, Shared!Next
    <3>2. CASE OpenFile(t)
      BY <1>2, <3>2, SharedOpen DEF Shared!Next
    <3>3. CASE ~Publish(t) /\ ~OpenFile(t)
      BY <1>2, <2>2, <3>3, SharedServe DEF Shared!Next
    <3> QED BY <3>1, <3>2, <3>3
  <2>3. CASE UNCHANGED vars
    BY <2>3 DEF vars, disk, transfer, DirectoryFiles, FilesRead, Shown
  <2> QED BY <1>2, <2>1, <2>2, <2>3 DEF Next, Finished
<1>3. TypeOK /\ FileInv /\ [Next]_vars => [Shared!Next]_(Shared!vars)
  BY <1>2 DEF Shared!vars
<1> QED BY <1>1, <1>3, FileInvariant, PTL
        DEF Spec, ImplementsSharedFiles, Shared!Spec
=============================================================================
