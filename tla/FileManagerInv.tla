---------------------------- MODULE FileManagerInv ----------------------------
(***************************************************************************)
(* The inductive invariant behind the theorems of FileManagerProofs.       *)
(***************************************************************************)
EXTENDS FileManager

\* An upload from its lock request to its publication: its inode is private.
Private == {"lock", "stat", "clear", "create", "ready", "recv", "link"}

\* An upload that holds the exclusive lock and has not published yet.
Uploading == {"stat", "clear", "create", "ready", "recv", "link"}

(* Requests and inodes are numbered without repetition.                    *)

NumInv ==
    /\ \A t \in Threads : req[t].num <= nreq
    /\ \A t \in Threads : pc[t] # "idle" => req[t].num \in Ids
    /\ \A t, u \in Threads : req[t].num = req[u].num /\ req[t].num # 0 => t = u
    /\ \A n \in Names : storage[n] # None => storage[n] <= nreq

(* What a thread knows at each place.                                      *)

PlaceInv ==
    \A t \in Threads :
        /\ pc[t] \in Private \union {"open", "stream", "unlink"} =>
              req[t].name \in Names
        /\ result[t] = -1 => pc[t] \in {"cleanup", "release", "idle"}
        /\ pc[t] = "stream" => file_fd[t] \in 1 .. nreq

(* The inode of an upload is nobody else's until it is published.          *)

FreshInv ==
    \A t \in Threads : pc[t] \in Private =>
        /\ \A n \in Names : storage[n] # req[t].num
        /\ \A u \in Threads : pc[u] = "stream" => file_fd[u] # req[t].num

(* How far the temporary file of an upload is.                             *)

WriteInv ==
    \A t \in Threads :
        /\ pc[t] \in {"ready", "recv"} => file_fd[t] = req[t].num
        /\ pc[t] \in {"ready", "recv", "link"} =>
              /\ temp[t] = req[t].num
              /\ inode[req[t].num].size = req[t].size
        /\ pc[t] = "ready" => inode[req[t].num].len = 0
        /\ pc[t] = "recv" =>
              /\ inode[req[t].num].len + remaining[t] <= req[t].size
              /\ ~write_failed[t] =>
                    inode[req[t].num].len + remaining[t] = req[t].size
        /\ pc[t] = "link" => inode[req[t].num].len = req[t].size

(* What the client still has to send.                                      *)

OwedInv ==
    \A t \in Threads :
        /\ pc[t] = "recv" => owed[t] = remaining[t]
        /\ pc[t] # "recv" /\ result[t] = 0 => owed[t] = 0

(* Who holds which lock.                                                   *)

LockInv ==
    /\ \A t \in Threads : pc[t] \in Uploading => lock[t] = "exclusive"
    /\ \A t \in Threads :
          pc[t] \in {"idle", "lock", "begin", "readdir"} => lock[t] = "none"
    /\ \A t, u \in Threads :
          /\ t # u /\ lock[t] = "exclusive" /\ lock[u] # "none"
          => req[t].name # req[u].name

\* The inductive invariant of the file manager: numbers, locks, what is
\* private to an upload, how far it is, and what the files look like
\* (file_manager_handle_upload and file_manager_handle_download).
FileInv ==
    /\ NumInv
    /\ PlaceInv
    /\ FreshInv
    /\ WriteInv
    /\ OwedInv
    /\ LockInv
    /\ FilesComplete
    /\ DownloadWhole
    /\ DestinationStaysFree

-----------------------------------------------------------------------------
(* What requests report and leave behind.                                  *)

\* Where a thread is tells which request it serves.
OpInv ==
    \A t \in Threads :
        /\ pc[t] = "lock" => req[t].op \in {"upload", "download"}
        /\ pc[t] \in Uploading \union {"unlink", "success"} => req[t].op = "upload"
        /\ pc[t] \in {"open", "stream"} => req[t].op = "download"
        /\ pc[t] \in {"begin", "readdir"} => req[t].op = "list"
        /\ pc[t] \notin {"idle", "cleanup", "release"} =>
              reply[t] \in {None, "UPLOAD_READY", "FILE_LIST_BEGIN"}

\* A temporary file that was not left behind is one that its upload knows of.
TempInv ==
    \A t \in Threads : temp[t] # None /\ t \notin leftover =>
        /\ temp_created[t]
        /\ pc[t] \in {"ready", "recv", "link", "unlink", "cleanup"}

\* What an upload has published stays; what it has not published it never will.
ReportInv ==
    \A t \in Threads : req[t].op = "upload" =>
        /\ pc[t] \in {"unlink", "success"} \/ reply[t] = "UPLOAD_SUCCESS" =>
              req[t].name \in Names /\ (removals = 0 => storage[req[t].name] = req[t].num)
        /\ reply[t] \in Errors => \A n \in Names : storage[n] # req[t].num

\* What was listed is complete, shared and no longer written.
SentInv ==
    \A t \in Threads : \A e \in list[t].sent :
        /\ e.id <= nreq
        /\ inode[e.id] = [regular |-> TRUE, size |-> e.size, len |-> e.size]
        /\ \A u \in Threads : pc[u] \in Private => e.id # req[u].num

\* Entry n, which readdir() has returned to t, is in the listing.
Shows(t, n) ==
    inode[storage[n]].regular => \E e \in list[t].sent : e.id = storage[n]

\* As long as no entry is removed, a listing misses none that it has seen,
\* unless fstatat() failed on one.
ListInv ==
    \A t \in Threads : removals = 0 =>
        /\ pc[t] = "readdir" =>
              /\ \A n \in list[t].present \union list[t].seen : storage[n] # None
              /\ ~list[t].errno => \A n \in list[t].seen : Shows(t, n)
        /\ reply[t] = "FILE_LIST_END" =>
              \A n \in list[t].present : storage[n] # None /\ Shows(t, n)

\* As long as no entry is removed, errno is that of a failed call.
CauseInv ==
    \A t \in Threads : removals = 0 =>
        /\ pc[t] = "readdir" /\ list[t].errno => faults > 0
        /\ reply[t] = "FILE_LIST_READ_FAILED" => faults > 0

\* The inductive invariant of the reports.
ReportsInv ==
    /\ OpInv
    /\ TempInv
    /\ ReportInv
    /\ SentInv
    /\ ListInv
    /\ CauseInv
=============================================================================
