------------------------------ MODULE ChatClient ------------------------------
(***************************************************************************)
(* The SyncChat client: the input thread (main() of client/main.c), the    *)
(* receiver thread, the upload session they share under upload_mutex       *)
(* (client/upload_client.c) and downloads into the local directory         *)
(* (client/download_client.c).                                             *)
(*                                                                         *)
(* The other end of the connection is the server as ClientManager and      *)
(* FileManager describe it, reduced to one client: it reads its stream in  *)
(* order, answers each request with one frame, after UPLOAD_READY reads    *)
(* raw blocks, and may go away at any time.  Frames and blocks of both     *)
(* streams are items; an answer carries the number of its request, which   *)
(* the program does not see, so that properties can.                       *)
(***************************************************************************)
EXTENDS Integers, FiniteSets, Sequences

CONSTANTS
    Names,        \* shared filenames
    Documents,    \* the user's own files: the names that are uploaded, and that
                  \* may be in the download directory from before
    FileSizes,    \* sizes of the files that the user and others upload
    MaxSize,      \* bound: blocks of a file
    MaxCommands,  \* bound: requests typed by the user
    MaxOthers,    \* bound: messages of other clients, files of other programs
    MaxFaults,    \* bound: failing local calls
    Commands,     \* the requests typed: a subset of CommandKinds
    None          \* no file, no name

\* "ask" stands for /users, /files, /msg and a public message.
CommandKinds == {"ask", "upload", "download", "quit"}

ASSUME ChatClientAssumption ==
    /\ Documents \subseteq Names
    /\ FileSizes \subseteq 0 .. MaxSize
    /\ MaxSize \in Nat
    /\ MaxCommands \in Nat
    /\ MaxOthers \in Nat
    /\ MaxFaults \in Nat
    /\ Commands \subseteq CommandKinds
    /\ None \notin Names \union Nat

VARIABLES
    mpc,                 \* where the input thread is
    rpc,                 \* where the receiver thread is
    client_running,      \* the atomic flag
    shut,                \* client_socket is shut down or closed
    upload_state,        \* guarded by upload_mutex, as the next three
    response_available,
    response,            \* response_type and response_payload
    connection_closed,
    upload,              \* the upload the input thread works on
    unsent,              \* its blocks not yet sent
    answer,              \* server_response: the answer it has taken
    outcome,             \* history: the uploads that have returned
    download,            \* the download the receiver works on
    local,               \* download directory: name -> file, or None
    temp,                \* download directory: the temporary file, or None
    content,             \* file -> its promised size and its blocks
    saved,               \* history: downloads reported as successful
    to_server,           \* stream of the client to the server
    to_client,           \* stream of the server to the client
    srv,                 \* where the server's handler is
    srv_upload,          \* the upload it receives
    srv_left,            \* blocks it still expects
    shared,              \* the server's files: name -> file, or None
    ncmd,                \* requests typed so far: numbers requests and files
    nothers,             \* steps of others so far
    faults               \* failed local calls so far

session == <<upload_state, response_available, response, connection_closed>>
sending == <<upload, unsent, answer, outcome>>
disk == <<local, temp, content>>
receiving == <<download, disk, saved>>
streams == <<to_server, to_client>>
server == <<srv, srv_upload, srv_left, shared>>
vars == <<mpc, rpc, client_running, shut, session, sending, receiving, streams,
          server, ncmd, nothers, faults>>

-----------------------------------------------------------------------------
(* Data.                                                                   *)

Sizes == 0 .. MaxSize
Requests == 0 .. MaxCommands

\* Files of the download directory: 0 is one from before, a download creates
\* the file with its own number, other programs create the ones above.
LocalFiles == 0 .. MaxCommands + MaxOthers

\* Request 0 stands for everybody else: the login, messages of others, files
\* that were there before.
Item(type, num, name, size) ==
    [type |-> type, num |-> num, name |-> name, size |-> size]

ToServer == {"LOGIN", "RAW"} \union CommandKinds

ToClient == {"USERNAME_REQUIRED", "LOGIN_SUCCESS", "BROADCAST", "RESPONSE",
             "ERROR", "UPLOAD_READY", "UPLOAD_SUCCESS", "DOWNLOAD_READY",
             "GOODBYE", "RAW"}

Items(T) == [type : T, num : Requests, name : Names \union {None}, size : Sizes]

NoItem == Item("RESPONSE", 0, None, 0)
Raw(num) == Item("RAW", num, None, 0)

\* An upload request and a shared file have the same parts.
File(num, name, size) == [num |-> num, name |-> name, size |-> size]
Files == [num : Requests, name : Names \union {None}, size : Sizes]
NoFile == File(0, None, 0)

ASSUME NoneIsNoFile == None \notin Files

\* failed is local_write_failed.
NoDownload == [num |-> 0, name |-> None, size |-> 0, left |-> 0,
               failed |-> FALSE]

MainPcs == {"connect", "greet", "user", "result", "loop", "input", "up_lock",
            "up_meta", "up_wait", "up_refused", "up_start", "up_data",
            "up_final", "up_idle", "join", "done", "exit"}

ReceiverPcs == {"none", "loop", "recv", "stop", "dl_open", "dl_recv",
                "dl_link", "dl_unlink", "dl_stop", "ended"}

Uploading == mpc \in {"up_meta", "up_wait", "up_refused", "up_start",
                      "up_data", "up_final", "up_idle"}

-----------------------------------------------------------------------------
(* The socket (external), as send_all and recv_all see it.                 *)

\* send_all succeeds.  What is sent to a server that has gone is lost.
SendDone(m) ==
    /\ ~shut
    /\ to_server' = IF srv = "closed" THEN to_server ELSE Append(to_server, m)

SendFails == shut \/ srv = "closed"

\* recv_all returns the next item ...
Arrived(m) == to_client # <<>> /\ m = Head(to_client)
Consume == to_client' = Tail(to_client)

\* ... or the end of the stream, or an error; a reset discards what is left.
StreamOver == shut \/ srv = "closed"

Fault == faults < MaxFaults /\ faults' = faults + 1
NoFault == faults' = faults

-----------------------------------------------------------------------------
(* Connection and login: synchronous, before the receiver exists.          *)

\* cleanup_socket and EXIT_FAILURE.
ExitFailure == mpc' = "exit" /\ shut' = TRUE

connect_to_server ==
    /\ mpc = "connect"
    /\ \/ srv # "closed" /\ mpc' = "greet" /\ shut' = shut
       \/ ExitFailure
    /\ UNCHANGED <<rpc, client_running, session, sending, receiving, streams,
                   server, ncmd, nothers, faults>>

ReceiveGreeting ==
    /\ mpc = "greet"
    /\ \/ /\ Arrived(Item("USERNAME_REQUIRED", 0, None, 0))
          /\ Consume
          /\ mpc' = "user"
          /\ shut' = shut
       \/ /\ StreamOver
          /\ ExitFailure
          /\ to_client' = to_client
    /\ UNCHANGED <<rpc, client_running, session, sending, receiving, to_server,
                   server, ncmd, nothers, faults>>

\* A valid username is typed and sent, or the input ends.
EnterUsername ==
    /\ mpc = "user"
    /\ \/ /\ SendDone(Item("LOGIN", 0, None, 0))
          /\ mpc' = "result"
          /\ shut' = shut
       \/ /\ ExitFailure
          /\ to_server' = to_server
    /\ UNCHANGED <<rpc, client_running, session, sending, receiving, to_client,
                   server, ncmd, nothers, faults>>

\* The first frame after the login decides; then the receiver starts, unless
\* pthread_create fails.
ReceiveLoginResult ==
    /\ mpc = "result"
    /\ \/ /\ Arrived(Item("LOGIN_SUCCESS", 0, None, 0))
          /\ Consume
          /\ mpc' = "loop"
          /\ rpc' = "loop"
          /\ client_running' = TRUE
          /\ shut' = shut
          /\ NoFault
       \/ /\ Arrived(Item("LOGIN_SUCCESS", 0, None, 0))
          /\ Consume
          /\ Fault
          /\ ExitFailure
          /\ UNCHANGED <<rpc, client_running>>
       \/ /\ \E m \in Items({"ERROR", "BROADCAST"}) : Arrived(m)
          /\ Consume
          /\ ExitFailure
          /\ NoFault
          /\ UNCHANGED <<rpc, client_running>>
       \/ /\ StreamOver
          /\ ExitFailure
          /\ NoFault
          /\ UNCHANGED <<to_client, rpc, client_running>>
    /\ UNCHANGED <<session, sending, receiving, to_server, server, ncmd, nothers>>

-----------------------------------------------------------------------------
(* The input thread.                                                       *)

\* while (client_running), up to the wait for a line.
InputLoop ==
    /\ mpc = "loop"
    /\ mpc' = IF client_running THEN "input" ELSE "join"
    /\ UNCHANGED <<rpc, client_running, shut, session, sending, receiving,
                   streams, server, ncmd, nothers, faults>>

\* Mutant of GiveUp: the socket is not shut down.
GiveUpQuietly == mpc' = "join" /\ client_running' = FALSE /\ shut' = shut

\* The connection can no longer be trusted: stop, shut down and leave the loop.
GiveUp == mpc' = "join" /\ client_running' = FALSE /\ shut' = TRUE

\* A line is typed; the flag is looked at again before it is acted on.
Type(cmd) ==
    /\ mpc = "input"
    /\ cmd \in Commands
    /\ client_running
    /\ ncmd < MaxCommands
    /\ ncmd' = ncmd + 1

TypeTooLate ==
    /\ mpc = "input"
    /\ ~client_running
    /\ mpc' = "join"
    /\ UNCHANGED <<rpc, client_running, shut, session, sending, receiving,
                   streams, server, ncmd, nothers, faults>>

\* A request of one frame, answered through the receiver; nothing is sent if
\* the line is not well-formed.
SendRequest(m) ==
    /\ \/ /\ SendDone(m)
          /\ mpc' = "loop"
          /\ UNCHANGED <<client_running, shut>>
       \/ /\ SendFails
          /\ GiveUp
          /\ to_server' = to_server
    /\ UNCHANGED <<rpc, session, sending, receiving, to_client, server, nothers,
                   faults>>

Ask == Type("ask") /\ SendRequest(Item("ask", ncmd', None, 0))

Download(n) == Type("download") /\ SendRequest(Item("download", ncmd', n, 0))

\* /quit: the receiver stays active until it has GOODBYE.
Quit ==
    /\ Type("quit")
    /\ mpc' = "join"
    /\ \/ /\ SendDone(Item("quit", ncmd', None, 0))
          /\ UNCHANGED <<client_running, shut>>
       \/ /\ SendFails
          /\ client_running' = FALSE
          /\ shut' = TRUE
          /\ to_server' = to_server
    /\ UNCHANGED <<rpc, session, sending, receiving, to_client, server, nothers,
                   faults>>

\* The end of standard input: MSG_DISCONNECT if still connected, and the
\* result of that send is ignored.
InputEnds ==
    /\ mpc = "input"
    /\ mpc' = "join"
    /\ \/ /\ client_running
          /\ SendDone(Item("quit", 0, None, 0))
       \/ /\ ~client_running \/ SendFails
          /\ to_server' = to_server
    /\ UNCHANGED <<rpc, client_running, shut, session, sending, receiving,
                   to_client, server, ncmd, nothers, faults>>

\* The receiver has been joined: clean up and exit.
Join ==
    /\ mpc = "join" /\ rpc = "ended"
    /\ mpc' = "done"
    /\ client_running' = FALSE
    /\ shut' = TRUE
    /\ UNCHANGED <<rpc, session, sending, receiving, streams, server, ncmd,
                   nothers, faults>>

-----------------------------------------------------------------------------
(* upload_client_upload, in the input thread.                              *)

\* /upload: the file is opened and examined; if it cannot be shared, nothing
\* is sent.
Upload(n, k) ==
    /\ Type("upload")
    /\ \/ /\ upload' = File(ncmd', n, k)
          /\ mpc' = "up_lock"
          /\ NoFault
       \/ /\ Fault
          /\ upload' = upload
          /\ mpc' = "loop"
    /\ UNCHANGED <<rpc, client_running, shut, session, unsent, answer, outcome,
                   receiving, streams, server, nothers>>

\* Under upload_mutex: the session starts.  upload_state is UPLOAD_IDLE here,
\* because every upload that leaves it otherwise ends the program.
UploadLock ==
    /\ mpc = "up_lock"
    /\ upload_state = "IDLE"
    /\ upload_state' = "WAIT_READY"
    /\ response_available' = FALSE
    /\ connection_closed' = FALSE
    /\ mpc' = "up_meta"
    /\ UNCHANGED <<rpc, client_running, shut, response, sending, receiving,
                   streams, server, ncmd, nothers, faults>>

\* The upload returns r; by is the request whose answer decided it.
Returned(r, by) ==
    outcome' = outcome \union
        {[num |-> upload.num, name |-> upload.name, size |-> upload.size,
          result |-> r, by |-> by]}

\* The upload returns -1.
UploadLost == GiveUp /\ Returned(-1, upload.num)

UploadSendMetadata ==
    /\ mpc = "up_meta"
    /\ \/ /\ SendDone(Item("upload", upload.num, upload.name, upload.size))
          /\ mpc' = "up_wait"
          /\ UNCHANGED <<client_running, shut, outcome>>
       \/ /\ SendFails
          /\ UploadLost
          /\ to_server' = to_server
    /\ UNCHANGED <<rpc, session, upload, unsent, answer, receiving, to_client,
                   server, ncmd, nothers, faults>>

\* wait_for_response: a closed connection goes before an answer.
ResponseTaken ==
    /\ ~connection_closed /\ response_available
    /\ response_available' = FALSE
    /\ answer' = response

\* Mutant of IsReady: every answer to the metadata is taken for UPLOAD_READY.
IsReadyAny(m) == TRUE

IsReady(m) == m.type = "UPLOAD_READY"

UploadWaitReady ==
    /\ mpc = "up_wait"
    /\ \/ /\ ResponseTaken
          /\ mpc' = IF IsReady(response) THEN "up_start" ELSE "up_refused"
          /\ UNCHANGED <<client_running, shut, outcome>>
       \/ /\ connection_closed
          /\ UploadLost
          /\ UNCHANGED <<response_available, answer>>
    /\ UNCHANGED <<rpc, upload_state, response, connection_closed, upload,
                   unsent, receiving, streams, server, ncmd, nothers, faults>>

\* The server did not say UPLOAD_READY: back to UPLOAD_IDLE, and return 1.
UploadRefused ==
    /\ mpc = "up_refused"
    /\ upload_state' = "IDLE"
    /\ Returned(1, answer.num)
    /\ mpc' = "loop"
    /\ UNCHANGED <<rpc, client_running, shut, response_available, response,
                   connection_closed, upload, unsent, answer, receiving,
                   streams, server, ncmd, nothers, faults>>

\* Prepare for the final answer before sending data.
UploadStart ==
    /\ mpc = "up_start"
    /\ upload_state' = "WAIT_RESULT"
    /\ response_available' = FALSE
    /\ unsent' = upload.size
    /\ mpc' = "up_data"
    /\ UNCHANGED <<rpc, client_running, shut, response, connection_closed,
                   upload, answer, outcome, receiving, streams, server, ncmd,
                   nothers, faults>>

\* Mutant of UploadBlock: one block too many.
UploadBlockExtra ==
    /\ mpc = "up_data" /\ unsent >= 0
    /\ SendDone(Raw(upload.num))
    /\ unsent' = unsent - 1
    /\ UNCHANGED <<mpc, rpc, client_running, shut, session, upload, answer,
                   outcome, receiving, to_client, server, ncmd, nothers, faults>>

\* The next block is read and sent; the upload is lost if either fails.
UploadBlock ==
    /\ mpc = "up_data" /\ unsent > 0
    /\ \/ /\ SendDone(Raw(upload.num))
          /\ unsent' = unsent - 1
          /\ NoFault
          /\ UNCHANGED <<mpc, client_running, shut, outcome>>
       \/ /\ (SendFails /\ NoFault) \/ Fault
          /\ UploadLost
          /\ UNCHANGED <<to_server, unsent>>
    /\ UNCHANGED <<rpc, session, upload, answer, receiving, to_client,
                   server, ncmd, nothers>>

UploadSent ==
    /\ mpc = "up_data" /\ unsent = 0
    /\ mpc' = "up_final"
    /\ UNCHANGED <<rpc, client_running, shut, session, sending, receiving,
                   streams, server, ncmd, nothers, faults>>

UploadWaitResult ==
    /\ mpc = "up_final"
    /\ \/ /\ ResponseTaken
          /\ mpc' = "up_idle"
          /\ UNCHANGED <<client_running, shut, outcome>>
       \/ /\ connection_closed
          /\ UploadLost
          /\ UNCHANGED <<response_available, answer>>
    /\ UNCHANGED <<rpc, upload_state, response, connection_closed, upload,
                   unsent, receiving, streams, server, ncmd, nothers, faults>>

\* Mutant of Status: the type of the answer is not looked at.
StatusAny(m) == 0

Status(m) == IF m.type = "UPLOAD_SUCCESS" THEN 0 ELSE 1

UploadReturn ==
    /\ mpc = "up_idle"
    /\ upload_state' = "IDLE"
    /\ Returned(Status(answer), answer.num)
    /\ mpc' = "loop"
    /\ UNCHANGED <<rpc, client_running, shut, response_available, response,
                   connection_closed, upload, unsent, answer, receiving,
                   streams, server, ncmd, nothers, faults>>

-----------------------------------------------------------------------------
(* The receiver thread.                                                    *)

ReceiverLoop ==
    /\ rpc = "loop"
    /\ rpc' = IF client_running THEN "recv" ELSE "ended"
    /\ UNCHANGED <<mpc, client_running, shut, session, sending, receiving,
                   streams, server, ncmd, nothers, faults>>

\* upload_client_handle_server_message takes a frame: while an upload is
\* active, every error and every UPLOAD_ response.
TakesForUpload(m) ==
    /\ upload_state # "IDLE"
    /\ m.type \in {"ERROR", "UPLOAD_READY", "UPLOAD_SUCCESS"}

\* A frame for the upload: it goes into the one response slot.
ReceiveUploadAnswer ==
    /\ rpc = "recv"
    /\ \E m \in Items(ToClient \ {"RAW"}) :
       /\ Arrived(m)
       /\ TakesForUpload(m)
       /\ response' = m
    /\ Consume
    /\ response_available' = TRUE
    /\ rpc' = "loop"
    /\ UNCHANGED <<mpc, client_running, shut, upload_state, connection_closed,
                   sending, receiving, to_server, server, ncmd, nothers, faults>>

\* A frame that is shown to the user; GOODBYE ends the session.
ReceiveMessage ==
    /\ rpc = "recv"
    /\ \E m \in Items(ToClient \ {"RAW", "DOWNLOAD_READY"}) :
       /\ Arrived(m)
       /\ ~TakesForUpload(m)
       /\ client_running' = (client_running /\ m.type # "GOODBYE")
    /\ Consume
    /\ rpc' = IF client_running' THEN "loop" ELSE "ended"
    /\ UNCHANGED <<mpc, shut, session, sending, receiving, to_server, server,
                   ncmd, nothers, faults>>

\* Mutant of ConnectionLost: the upload is not told.
ConnectionLostSilently ==
    /\ rpc = "recv"
    /\ StreamOver
    /\ rpc' = "stop"
    /\ UNCHANGED <<mpc, client_running, shut, session, sending, receiving,
                   streams, server, ncmd, nothers, faults>>

\* The stream is over: upload_client_notify_connection_closed ...
ConnectionLost ==
    /\ rpc = "recv"
    /\ StreamOver
    /\ connection_closed' = TRUE
    /\ rpc' = "stop"
    /\ UNCHANGED <<mpc, client_running, shut, upload_state, response_available,
                   response, sending, receiving, streams, server, ncmd,
                   nothers, faults>>

\* ... and then client_running = 0, with a shutdown() after a download.
ReceiverStop ==
    /\ rpc \in {"stop", "dl_stop"}
    /\ client_running' = FALSE
    /\ shut' = (shut \/ rpc = "dl_stop")
    /\ rpc' = "ended"
    /\ UNCHANGED <<mpc, session, sending, receiving, streams, server, ncmd,
                   nothers, faults>>

-----------------------------------------------------------------------------
(* download_client_handle_server_message, in the receiver thread.          *)

ReceiveDownloadReady ==
    /\ rpc = "recv"
    /\ \E m \in Items({"DOWNLOAD_READY"}) :
       /\ Arrived(m)
       /\ download' = [num |-> m.num, name |-> m.name, size |-> m.size,
                       left |-> m.size, failed |-> FALSE]
    /\ Consume
    /\ rpc' = "dl_open"
    /\ UNCHANGED <<mpc, client_running, shut, session, sending, disk, saved,
                   to_server, server, ncmd, nothers, faults>>

\* Mutant of OpenTemp: an old temporary file is truncated and used again.
OpenTempTruncating ==
    /\ local[download.name] = None
    /\ temp' = IF temp = None THEN download.num ELSE temp
    /\ content' = [content EXCEPT ![temp'] = [size |-> download.size, len |-> 0]]
    /\ download' = [download EXCEPT !.num = temp']
    /\ NoFault

\* The name is free: unlink() of the temporary name, whose result is not
\* looked at, and open() with O_CREAT and O_EXCL.
OpenTemp ==
    /\ local[download.name] = None
    /\ temp' = download.num
    /\ content' = [content EXCEPT ![download.num] =
                      [size |-> download.size, len |-> 0]]
    /\ download' = download
    /\ NoFault

\* local_write_failed: the name is taken, or a call fails and leaves a
\* temporary file or none.
OpenFails ==
    /\ (local[download.name] # None /\ NoFault) \/ Fault
    /\ temp' \in {temp, None}
    /\ local[download.name] # None => temp' = temp
    /\ content' = content
    /\ download' = [download EXCEPT !.failed = TRUE]

DownloadOpen ==
    /\ rpc = "dl_open"
    /\ OpenTemp \/ OpenFails
    /\ rpc' = "dl_recv"
    /\ UNCHANGED <<mpc, client_running, shut, session, sending, local, saved,
                   streams, server, ncmd, nothers>>

\* Mutant of AfterBlock: a failed write ends the loop.
AfterBlockStopping(d, failed) ==
    [d EXCEPT !.failed = failed, !.left = IF failed THEN 0 ELSE @ - 1]

\* The loop goes on, whether or not the block could be written.
AfterBlock(d, failed) == [d EXCEPT !.failed = failed, !.left = @ - 1]

\* recv_all() of a block and, unless the disk has failed, a write of it.
DownloadBlock ==
    /\ rpc = "dl_recv" /\ download.left > 0
    /\ to_client # <<>>
    /\ Consume
    /\ \/ /\ ~download.failed
          /\ content' = [content EXCEPT ![download.num].len = @ + 1]
          /\ download' = AfterBlock(download, FALSE)
          /\ NoFault
       \/ /\ (download.failed /\ NoFault) \/ Fault
          /\ content' = content
          /\ download' = AfterBlock(download, TRUE)
    /\ UNCHANGED <<mpc, rpc, client_running, shut, session, sending, local,
                   temp, saved, to_server, server, ncmd, nothers>>

\* unlink() of the temporary name; its result is never looked at.
UnlinkTemp ==
    \/ temp' = None /\ NoFault
    \/ temp # None /\ temp' = temp /\ Fault

\* The stream ends in the middle of the file: return -1, and the upload is told.
DownloadLost ==
    /\ rpc = "dl_recv" /\ download.left > 0
    /\ StreamOver
    /\ UnlinkTemp
    /\ download' = NoDownload
    /\ connection_closed' = TRUE
    /\ rpc' = "dl_stop"
    /\ UNCHANGED <<mpc, client_running, shut, upload_state, response_available,
                   response, sending, local, content, saved, streams, server,
                   ncmd, nothers>>

\* The download is reported as failed, for a reason known before or because
\* a call fails now: return 2.
DownloadFailed(known) ==
    /\ (known /\ UnlinkTemp) \/ (~known /\ Fault /\ temp' \in {temp, None})
    /\ download' = NoDownload
    /\ rpc' = "loop"

\* Mutant of DownloadClose: local_write_failed is not looked at.
DownloadCloseIgnoring ==
    /\ rpc = "dl_recv" /\ download.left = 0
    /\ temp # None
    /\ rpc' = "dl_link"
    /\ UNCHANGED <<mpc, client_running, shut, session, sending, receiving,
                   streams, server, ncmd, nothers, faults>>

\* fsync(), fchmod() and close(), the failure of which is a failed write.
DownloadClose ==
    /\ rpc = "dl_recv" /\ download.left = 0
    /\ \/ /\ ~download.failed
          /\ rpc' = "dl_link"
          /\ NoFault
          /\ UNCHANGED <<temp, download>>
       \/ DownloadFailed(download.failed)
    /\ UNCHANGED <<mpc, client_running, shut, session, sending, local, content,
                   saved, streams, server, ncmd, nothers>>

\* Mutant of DownloadLink: the failure of link() is not noticed.
DownloadLinkUnchecked ==
    /\ rpc = "dl_link"
    /\ local' = [local EXCEPT ![download.name] = IF @ = None THEN temp ELSE @]
    /\ rpc' = "dl_unlink"
    /\ UNCHANGED <<mpc, client_running, shut, session, sending, download, temp,
                   content, saved, streams, server, ncmd, nothers, faults>>

\* link() publishes the file, unless the name has been taken meanwhile.
DownloadLink ==
    /\ rpc = "dl_link"
    /\ \/ /\ local[download.name] = None
          /\ local' = [local EXCEPT ![download.name] = temp]
          /\ rpc' = "dl_unlink"
          /\ NoFault
          /\ UNCHANGED <<temp, download>>
       \/ /\ DownloadFailed(local[download.name] # None)
          /\ local' = local
    /\ UNCHANGED <<mpc, client_running, shut, session, sending, content, saved,
                   streams, server, ncmd, nothers>>

\* Only one name is left, if unlink() works; the download is reported.
DownloadReturn ==
    /\ rpc = "dl_unlink"
    /\ UnlinkTemp
    /\ saved' = saved \union {File(download.num, download.name, download.size)}
    /\ download' = NoDownload
    /\ rpc' = "loop"
    /\ UNCHANGED <<mpc, client_running, shut, session, sending, local, content,
                   streams, server, ncmd, nothers>>

-----------------------------------------------------------------------------
(* The server's handler of this connection.                                *)

\* What the handler leaves alone: all of the client.
ClientUnchanged ==
    UNCHANGED <<mpc, rpc, client_running, shut, session, sending, receiving,
                ncmd, faults>>

Answer(m) == to_client' = Append(to_client, m)

\* Frames of one send_mutex section, such as DOWNLOAD_READY and its data.
AnswerAll(q) == to_client' = to_client \o q

\* The server greets, registers the client or turns it down, and confirms the
\* login after it is registered.
ServerLogin ==
    /\ \/ /\ srv = "new"
          /\ Answer(Item("USERNAME_REQUIRED", 0, None, 0))
          /\ srv' = "login"
          /\ to_server' = to_server
       \/ /\ srv = "login" /\ to_server # <<>>
          /\ srv' = "registered"
          /\ to_server' = Tail(to_server)
          /\ to_client' = to_client
       \/ /\ srv = "login" /\ to_server # <<>>
          /\ Answer(Item("ERROR", 0, None, 0))
          /\ srv' = "closed"
          /\ to_server' = <<>>
       \/ /\ srv = "registered"
          /\ Answer(Item("LOGIN_SUCCESS", 0, None, 0))
          /\ srv' = "idle"
          /\ to_server' = to_server
    /\ ClientUnchanged
    /\ UNCHANGED <<srv_upload, srv_left, shared, nothers>>

\* The handler receives a frame of the kind.
ServerReceives(m) ==
    /\ srv = "idle"
    /\ to_server # <<>> /\ m = Head(to_server)
    /\ to_server' = Tail(to_server)

\* A request of one answer, or one that is turned down.
ServerAnswers ==
    /\ \E m \in Items({"ask", "upload", "download"}) :
       /\ ServerReceives(m)
       /\ \/ Answer(Item("ERROR", m.num, None, 0))
          \/ m.type = "ask" /\ Answer(Item("RESPONSE", m.num, None, 0))
    /\ ClientUnchanged
    /\ UNCHANGED <<server, nothers>>

ServerStreamsFile ==
    /\ \E m \in Items({"download"}) :
       /\ ServerReceives(m)
       /\ shared[m.name] # None
       /\ LET k == shared[m.name].size IN
          AnswerAll(<<Item("DOWNLOAD_READY", m.num, m.name, k)>>
                    \o [i \in 1 .. k |-> Raw(m.num)])
    /\ ClientUnchanged
    /\ UNCHANGED <<server, nothers>>

ServerReady ==
    /\ \E m \in Items({"upload"}) :
       /\ ServerReceives(m)
       /\ shared[m.name] = None
       /\ Answer(Item("UPLOAD_READY", m.num, None, 0))
       /\ srv_upload' = File(m.num, m.name, m.size)
       /\ srv_left' = m.size
    /\ srv' = "data"
    /\ ClientUnchanged
    /\ UNCHANGED <<shared, nothers>>

\* recv_all() takes the next bytes of the stream, whatever they are.
ServerBlock ==
    /\ srv = "data" /\ srv_left > 0
    /\ to_server # <<>>
    /\ to_server' = Tail(to_server)
    /\ srv_left' = srv_left - 1
    /\ ClientUnchanged
    /\ UNCHANGED <<to_client, srv, srv_upload, shared, nothers>>

\* The upload is published, or has failed on the server's disk.
ServerUploadEnds ==
    /\ srv = "data" /\ srv_left = 0
    /\ \/ /\ shared[srv_upload.name] = None
          /\ shared' = [shared EXCEPT ![srv_upload.name] = srv_upload]
          /\ Answer(Item("UPLOAD_SUCCESS", srv_upload.num, None, 0))
       \/ /\ shared' = shared
          /\ Answer(Item("ERROR", srv_upload.num, None, 0))
    /\ srv' = "idle"
    /\ srv_upload' = NoFile
    /\ ClientUnchanged
    /\ UNCHANGED <<to_server, srv_left, nothers>>

ServerGoodbye ==
    /\ \E m \in Items({"quit"}) : ServerReceives(m)
    /\ Answer(Item("GOODBYE", 0, None, 0))
    /\ srv' = "closed"
    /\ ClientUnchanged
    /\ UNCHANGED <<srv_upload, srv_left, shared, nothers>>

\* The handler ends without a word: the server stops or fails, raw data where
\* a header should be is not a valid message, or the client is gone.
ServerCloses ==
    /\ srv # "closed"
    /\ srv' = "closed"
    /\ to_server' = <<>>
    /\ ClientUnchanged
    /\ UNCHANGED <<to_client, srv_upload, srv_left, shared, nothers>>

-----------------------------------------------------------------------------
(* Others: another client's message, another client's upload, a program that
   puts a file into the download directory.                                *)

OtherClient ==
    /\ nothers < MaxOthers
    /\ nothers' = nothers + 1
    /\ srv \in {"registered", "idle", "data"}
    /\ \/ /\ Answer(Item("BROADCAST", 0, None, 0))
          /\ shared' = shared
       \/ /\ to_client' = to_client
          /\ \E n \in Names, k \in FileSizes :
             /\ shared[n] = None
             /\ ~(srv = "data" /\ srv_upload.name = n)
             /\ shared' = [shared EXCEPT ![n] = File(0, n, k)]
    /\ ClientUnchanged
    /\ UNCHANGED <<to_server, srv, srv_upload, srv_left>>

OtherProgram(n) ==
    /\ nothers < MaxOthers
    /\ nothers' = nothers + 1
    /\ local[n] = None
    /\ local' = [local EXCEPT ![n] = MaxCommands + nothers']
    /\ UNCHANGED <<mpc, rpc, client_running, shut, session, sending, download,
                   temp, content, saved, streams, server, ncmd, faults>>

-----------------------------------------------------------------------------
\* The server shares nothing yet or a file under every name.  In the download
\* directory file 0 is one from before, whose temporary name may be there too.
Init ==
    /\ mpc = "connect" /\ rpc = "none"
    /\ client_running = TRUE
    /\ shut = FALSE
    /\ upload_state = "IDLE"
    /\ response_available = FALSE
    /\ response = NoItem
    /\ connection_closed = FALSE
    /\ upload = NoFile
    /\ unsent = 0
    /\ answer = NoItem
    /\ outcome = {}
    /\ download = NoDownload
    /\ local \in [Names -> {None, 0}]
    /\ \A n \in Names \ Documents : local[n] = None
    /\ temp \in {None} \union {local[n] : n \in Names}
    /\ content = [i \in LocalFiles |-> [size |-> 0, len |-> 0]]
    /\ saved = {}
    /\ to_server = <<>> /\ to_client = <<>>
    /\ srv = "new"
    /\ srv_upload = NoFile
    /\ srv_left = 0
    /\ shared \in [Names -> {None}] \union {[n \in Names |-> File(0, n, MaxSize)]}
    /\ ncmd = 0 /\ nothers = 0 /\ faults = 0

\* What the user decides.
User ==
    \/ Ask
    \/ \E n \in Names : Download(n)
    \/ \E n \in Documents, k \in FileSizes : Upload(n, k)
    \/ Quit
    \/ InputEnds
    \/ TypeTooLate
    \/ EnterUsername

Main ==
    \/ connect_to_server
    \/ ReceiveGreeting
    \/ ReceiveLoginResult
    \/ InputLoop
    \/ UploadLock
    \/ UploadSendMetadata
    \/ UploadWaitReady
    \/ UploadRefused
    \/ UploadStart
    \/ UploadBlock
    \/ UploadSent
    \/ UploadWaitResult
    \/ UploadReturn
    \/ Join

Receiver ==
    \/ ReceiverLoop
    \/ ReceiveUploadAnswer
    \/ ReceiveMessage
    \/ ReceiveDownloadReady
    \/ ConnectionLost
    \/ ReceiverStop
    \/ DownloadOpen
    \/ DownloadBlock
    \/ DownloadLost
    \/ DownloadClose
    \/ DownloadLink
    \/ DownloadReturn

Server ==
    \/ ServerLogin
    \/ ServerAnswers
    \/ ServerStreamsFile
    \/ ServerReady
    \/ ServerBlock
    \/ ServerUploadEnds
    \/ ServerGoodbye

Others == OtherClient \/ \E n \in Names : OtherProgram(n)

\* The program has ended.
Finished == mpc \in {"done", "exit"} /\ UNCHANGED vars

Next == User \/ Main \/ Receiver \/ Server \/ ServerCloses \/ Others \/ Finished

Spec == Init /\ [][Next]_vars

\* The threads and the server go on; the server notices that the client is
\* gone.  The user need not type anything.
Fairness ==
    /\ WF_vars(Main)
    /\ WF_vars(Receiver)
    /\ WF_vars(Server)
    /\ WF_vars(shut /\ ServerCloses)

FairSpec == Spec /\ Fairness

-----------------------------------------------------------------------------
(* Properties.                                                             *)

\* Type invariant of the two threads, the session, the disk and the streams.
TypeOK ==
    /\ mpc \in MainPcs /\ rpc \in ReceiverPcs
    /\ client_running \in BOOLEAN /\ shut \in BOOLEAN
    /\ upload_state \in {"IDLE", "WAIT_READY", "WAIT_RESULT"}
    /\ response_available \in BOOLEAN /\ connection_closed \in BOOLEAN
    /\ response \in Items(ToClient) /\ answer \in Items(ToClient)
    /\ upload \in Files /\ unsent \in Sizes
    /\ outcome \subseteq [num : Requests, name : Names \union {None},
                          size : Sizes, result : {0, 1, -1}, by : Requests]
    /\ download \in [num : Requests, name : Names \union {None}, size : Sizes,
                     left : Sizes, failed : BOOLEAN]
    /\ local \in [Names -> LocalFiles \union {None}]
    /\ temp \in Requests \union {None}
    /\ content \in [LocalFiles -> [size : Sizes, len : Sizes]]
    /\ saved \subseteq Files
    /\ to_server \in Seq(Items(ToServer)) /\ to_client \in Seq(Items(ToClient))
    /\ srv \in {"new", "login", "registered", "idle", "data", "closed"}
    /\ srv_upload \in Files /\ srv_left \in Sizes
    /\ shared \in [Names -> Files \union {None}]
    /\ ncmd \in Requests /\ nothers \in 0 .. MaxOthers /\ faults \in 0 .. MaxFaults

\* Both ends agree on what comes next in the client's stream: frames to a
\* handler in its receive loop, raw blocks to an upload.
StreamAgreed ==
    to_server # <<>> =>
        /\ srv = "idle" => Head(to_server).type # "RAW"
        /\ srv = "data" /\ srv_left > 0 => Head(to_server).type = "RAW"

\* No upload took the answer to another request for its own.
AnswersOwn == \A o \in outcome : o.by = o.num

\* As long as no upload takes the answer to another request for its own, the
\* server reads frames where the client sends frames and file data where it
\* sends file data: the input thread sends blocks only after UPLOAD_READY,
\* all of them, and nothing in between (upload_client_upload).
UploadsInStep == AnswersOwn => StreamAgreed

\* Both ends agree on the server's stream: a download drains exactly the
\* promised blocks, whatever fails on the local disk.
DownloadsInStep ==
    to_client # <<>> =>
        /\ rpc \in {"loop", "recv"} => Head(to_client).type # "RAW"
        /\ rpc = "dl_recv" /\ download.left > 0 => Head(to_client).type = "RAW"

\* An upload that returns 0 on its own answer has been published under its
\* name with its size.  As long as no upload took the answer to another
\* request for its own, one that returns 1 has not been published and will not
\* be, unless the file is empty.  (A misled upload may return 0 although the
\* server has read its metadata as the data of an earlier upload.)
UploadTruth ==
    /\ \A o \in outcome :
          o.result = 0 /\ o.by = o.num => shared[o.name] = File(o.num, o.name, o.size)
    /\ AnswersOwn => \A o \in outcome :
          o.result = 1 /\ o.size > 0 =>
              \A n \in Names : shared[n] = None \/ shared[n].num # o.num

\* Every file in the download directory is complete.
LocalComplete ==
    \A n \in Names : local[n] # None =>
        content[local[n]].len = content[local[n]].size

\* A download reported as successful is in the directory under its name,
\* with the size the server announced, even if another program wrote there.
DownloadTruth ==
    \A f \in saved :
        local[f.name] = f.num /\ content[f.num] = [size |-> f.size, len |-> f.size]

\* No download replaces or changes a file of the download directory, even
\* one that the temporary name is a second name of.
LocalKept ==
    [][\A n \in Names : local[n] # None =>
          local'[n] = local[n] /\ content'[local[n]] = content[local[n]]]_vars

\* The receiver has not yet seen the end of the connection.
ReceiverAlive == rpc \notin {"stop", "dl_stop", "ended"}

\* An upload of a file that is not empty always returns, if the receiver was
\* alive when it reset connection_closed and no upload was misled: it is
\* answered, or told that the connection is lost.
UploadReturns ==
    mpc = "up_meta" /\ ReceiverAlive /\ upload.size > 0 /\ AnswersOwn
        ~> ~Uploading \/ ~AnswersOwn

\* A user who quits gets out: the receiver ends, and main() with it.
QuitEnds == mpc = "join" /\ AnswersOwn ~> mpc = "done"
=============================================================================
