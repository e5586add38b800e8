# SyncChat: a TLA+ model

SyncChat is a C program for Linux: a chat and file-sharing server with one
detached thread per client, a terminal client with two threads, and a logger
daemon. This directory holds TLA+ modules translated from its code, the TLC
configurations that check them, and proofs that TLAPS checks. Paths below are
relative to the repository's `src/` and `include/` directories.

## 1. Inventory

| Part | Source | State | Operations |
|---|---|---|---|
| Client registry | `server/client_manager.c` | `clients[MAX_CLIENTS]`, `clients_mutex`, a `send_mutex` per slot, `next_client_id` | add, remove, send, send to a username, broadcast, send a file stream, queries |
| Connection handler | `server/client_handler.c` | per thread: socket, username, client id | login, receive loop, one case per message type, teardown |
| File manager | `server/file_manager.c` | the storage directory: shared files, hidden temporary files | upload, download, list |
| File locks | `server/file_lock.c` | one lock file per shared name | acquire (waits), release |
| Main loop | `server/main.c` | listening socket, `running` | accept, start a thread, signals, shutdown |
| Stream I/O | `common/network_io.c` | none | `send_all`, `recv_all` |
| Validation | `common/protocol.c`, `common/file_transfer.c` | none | message types, usernames, filenames |
| Client | `client/main.c`, `client/download_client.c`, `client/upload_client.c` | socket, upload state with its condition variable, local files | input loop, receiver thread, upload session, download |
| Logger | `logger/logger_client.c`, `logger/main.c` | datagram socket, log file | log a line, receive loop |
| Performance timer | `common/performance_timer.c` | none | start, stop |

How the parts interact. `main` accepts a connection and starts a handler. The
handler logs the client in through the registry, then answers its requests;
each answer and each message to another client is written through the registry,
which finds the slot under `clients_mutex`, takes the slot's `send_mutex`,
releases `clients_mutex` and writes. File requests go from the handler to the
file manager, which takes a lock on the name and answers through the registry;
an upload reads the file's bytes directly from the socket. Every server part
sends datagrams to the logger daemon. In the client, the input thread sends
requests and the receiver thread reads all answers; an upload, which runs in the
input thread, gets its answers through a slot that the receiver fills under
`upload_mutex`, and a download runs in the receiver.

What is hard. Slots, client ids and descriptors are reused while other threads
still hold them in a snapshot. Several threads write to one socket, where a
download is a frame followed by raw bytes. Two levels of mutexes are held while
waiting for one another and for the network. Clients disappear or stop reading
at any point. Uploads of one name compete, calls to the file system fail half
way, the process ends in the middle of an upload, a listing runs without a
lock, and a temporary name can be left as a second name of a published file.
In the client, answers carry no request number, so an upload may take the answer
to something else; a closed connection and a starting upload race for one flag.
Every server thread may block in a log call, daemons may overlap, and a signal
may come just before `accept`. The list of hazards, each at its line, is in `PROJECT.json`.

What makes each part correct:

- registry: it holds exactly the logged-in connections; names are unique; a
  write reaches the connection it is meant for; no mutex is kept;
- streams: frames and file data of a connection are never interleaved; messages
  of one sender arrive in order and once; replies tell the truth;
- client: both ends agree on what the next bytes of either stream are; what an
  upload or a download reports is true; local files are complete and kept; an
  upload and the program end;
- processes: log calls return whatever the daemon does; a serving daemon is
  reachable; no descriptor is leaked; a signal ends the server, and little else;
- files: a shared file is complete and never changes; an answer agrees with
  the disk; the stream stays aligned even if the disk fails; temporary files and
  locks do not outlive their request.

## 2. Modules

| Module | Content |
|---|---|
| `ClientManager` | registry, handlers, kernel sockets and the clients' parsers |
| `ClientManagerInv` | the inductive invariants used by the proofs |
| `ClientManagerProofs` | the theorems about the registry, the limit and the streams |
| `ClientMessageProofs` | the theorems about broadcasts, private messages and their answers |
| `MCClientManager` | model values for TLC |
| `FileManager` | storage directory, locks, uploads, downloads, listings |
| `FileManagerInv` | the inductive invariants behind the proofs |
| `FileManagerProofs` | the theorems about the shared files, the refinement |
| `FileOutcomeProofs` | the theorems about answers, listings and temporary files |
| `MCFileManager` | model values for TLC |
| `SharedFiles` | abstract specification: what the file manager promises |
| `ChatClient` | the client's two threads, the upload session, downloads, with the server's end of the connection |
| `ChatClientInv` | the inductive invariants behind the proofs |
| `ChatClientProofs` | the theorems about requests, the server's stream and downloads |
| `ChatUploadProofs` | the theorems about uploads |
| `MCChatClient` | model values for TLC |
| `Logger` | `logger_client_log` and the logger daemon |
| `ServerMain` | extends `Logger`: main thread, handlers as far as the process is concerned, signals |
| `MCServerMain` | model values for TLC |
| `ServerMainProofs` | invariant of the process and its logger, theorems |

### ClientManager

A member of `Conns` is a connection and its handler thread. `clients`,
`clients_mutex`, `send_mutex` and `next_client_id` are the variables of the C
file; `sock` is the kernel's descriptor table, from which `accept` may hand out
a closed descriptor again; `link` is the state of the TCP connection. `pc`, `fd`,
`name`, `cid`, `msg`, `slot`, `wfd`, `targets`, `todo`, `successful` and
`remaining` are the locals of a thread. `wire` (frames completely written) and
`expect` (what the client's parser waits for) are what the properties look at.

A critical section that cannot block inside is one step, enabled when
`clients_mutex` is free. Where the code waits for a `send_mutex` with
`clients_mutex` held, the section is split (`client_manager_send` or
`send_to_target`, then `LockSend`; `client_manager_remove`, then `RemoveClear`),
and the two unlocks at the end of `client_manager_remove` are two steps. A frame
is written in two steps, header and payload, and file data block by block, so
that writers can interleave wherever the code lets them. `SendReturns` is the
continuation of every call that sends: which reply
follows, whether the loop of a broadcast goes on, whether the connection ends.
Errors the handler answers without looking at the result of the send are one
action, `HandleReply`; an upload, a listing and a download are here one frame,
and a frame with raw blocks. Failures of `pthread_mutex_lock` and `unlock` are
left out: the mutexes are initialised, not recursive and never destroyed. So is
the call of `client_manager_count` between removal and `close`, which takes and
releases `clients_mutex` for a log line. A peer that closes or resets its
connection is `PeerLeaves`; one that vanishes without a packet is a stalled one,
since the code sets neither a timeout nor `SO_KEEPALIVE`.

The id counter is an unsigned int that `client_manager_add` returns as an int;
`IntMax` is a constant, so that TLC reaches the overflow.

### FileManager

A member of `Threads` is a handler thread and the temporary name it uses; when
its connection ends (`ConnectionEnd`) or the process ends (`Exit`), a later
thread takes both over. That is the worst case of the code's name, made of pid,
descriptor and thread id. The disk has inodes, because `linkat` gives one inode
two names. `leftover` is the set of threads whose temporary file was left behind by
a failed `unlinkat` of that very file or by an exit. `owed` counts the blocks the client was told to send and the server
has not read. Each system call whose failure the code handles can fail
(`Fault`, bounded), and each send can fail. `readdir` (external) returns every
entry that was there all the time, and may return entries that came or went;
`Skipped` is an entry whose `fstatat` fails, because it is gone or for another
reason, with the `errno` that this leaves.
Other programs may add and remove entries (`OthersCreate`, `OthersRemove`),
which the code expects: it handles `EEXIST` from `linkat` and entries that
disappear during a listing. Errors that report a failed call are merged into
`UPLOAD_ERROR` and `DOWNLOAD_ERROR`; an entry that is not a regular file of an
acceptable size has `regular = FALSE`.

The two modules meet in the handler: `HandleFile` and `HandleDownload` of
`ClientManager` are the frames that `FileManager` sends with `Send`; that a send
may fail at any time is what `ClientManager` shows `client_manager_send` to do.

### SharedFiles

A directory of complete files that never change: a name gets one in one step,
only if it is free, and only other programs take it away; a download reads one
file as a whole. `FileManager` implements it with `files` as the directory seen
through its inodes (`DirectoryFiles`) and `reading` as the files that streaming
threads have open (`FilesRead`): locks, temporary files, partial writes, exits and
failing calls are stuttering steps. Identity, type and size of a file are part of
the abstract state, so that a replaced, truncated or growing file is a violation.

### ChatClient

`mpc` is the input thread (`main` and, in it, `upload_client_upload`), `rpc` the
receiver (`receiver_thread` and, in it, the download). Each critical section of
`upload_mutex` is one step, as is each send, receive and file-system call whose
order against the other thread matters. `to_server` and `to_client` are the two
streams, whose items are frames and raw blocks; an answer carries the number of
its request, which only the properties look at. The server's handler is what
`ClientManager` and `FileManager` describe, cut down to one connection: it answers
in order, may refuse anything, reads raw blocks after `UPLOAD_READY` whatever they
are, may be overtaken by a broadcast, and may go away at any time. `/users`,
`/files`, `/msg` and a public message are one action (`Ask`): each is one frame,
answered or turned down. `local` and `temp` are the download directory, with the
one temporary name of the process, which an earlier process may have left behind
(file 0; files of other programs have numbers above those of the requests, so that
no two files share an identity). `Documents` are the names that the user uploads or
that are in the download directory at the start, `FileSizes` the sizes of uploads.
Left out, because nothing reaches them: `UPLOAD_ALREADY_ACTIVE`, since one thread
starts uploads and waits for each, and `INVALID_DOWNLOAD_METADATA`, since the
server's frames are well-formed.

### Logger and ServerMain

A start of the daemon is a process of its own; `path` is what
`LOGGER_SOCKET_PATH` names, so that stale paths, overlapping daemons and the
unlink at the end of one of them are states. A datagram queue holds `QueueMax`
packets, and `sendto` waits when it is full (`call` is then the daemon waited for).
Every log call of the server is a call that the thread has to get out of before it
goes on; several calls in a row whose results nobody looks at are one.
`ServerMain` follows `main` from the start to the exit; of a handler it keeps its
log calls and its descriptor. A signal goes to the main thread, which Linux
prefers for a signal sent to a process and which blocks none; between the test of
`running` and `accept` it is lost (`missed`).

## 3. Runs

All runs take at most about four minutes on two cores.

| Run | Question | Bounds |
|---|---|---|
| `messages` | do broadcasts and private messages reach those they are meant for and nobody else while slots and descriptors change hands, and is the sender told the truth? | 3 connections, 3 slots, 1 message, 1 lost peer |
| `logins` | are names unique, is the limit answered only when the registry is full, what do ids do past `INT_MAX`? | `INT_MAX` = 2, 3 connections, 2 slots, 1 request of those that answer or quit, 1 lost or stalled peer, read errors |
| `live` | frames, raw data and order on a stream; requests answered, so no mutex is kept; lost clients removed | 2 connections, 2 broadcasts or downloads, 1 block, 1 lost peer |
| `files` | does the file manager implement `SharedFiles`; are its answers and listings true? | 2 threads, 2 names, 3 requests or foreign files, 1 failing call, 1 exit, 1 removal |
| `file_live` | every file request ends; the stream stays aligned; the destination stays free; a listing fails for a cause | 2 threads, 1 name, 3 requests, 1 fault, no foreign changes |
| `client` | do both ends of both streams agree; are results true; does the program end? | 2 names, files of 0 or 2 blocks, 2 commands, 1 step of others, 1 failing call |
| `processes` | do log calls return, is the daemon reachable, is a stale path replaced, are descriptors owned, does a signal end the server? | 1 connection, 2 starts of the daemon, queue of 1, 1 failing call, signal or kill of a daemon, 2 signals |

Why the bounds are enough: a stale snapshot needs a sender, a client that
leaves and one that takes its place (three connections); interleaving needs two
writers and one stream; a second name of a published file needs two uploads
with one temporary name and one exit or failing call; for a download the same
takes two downloads, of two names, since a name that exists is not opened; an upload that is misled
needs one request before it, and a third request is only needed (run `upload`) to
show the server reading a frame as data; a daemon that takes over a path needs
two starts, and a full queue one packet. With three connections `logins` hands out
an id that is read as a negative number, so the socket is closed while the entry
stays, but not the one that is read as the code for a full registry, which takes a
fourth login. `FramesWhole` cannot be in that run: the entry that stays belongs to
a descriptor that is reused, and after the overflow frames do get mixed; it holds
below 2^31 logins, which is what `live` checks and `StreamsStayWhole` proves.
`MaxRequests`, `MaxLogins`,
`MaxFailures`, `MaxFaults`, `MaxExits`, `MaxRemovals`, `MaxBlocks`, `MaxSize`,
`MaxCommands`, `MaxOthers`, `MaxStarts`, `MaxEvents` and `MaxSignals` bound the
behaviours and nothing else; the theorems hold for all their values.
The inductive invariants of the proofs (`RegistryInv`, `StreamInv`, `MessageInv`,
`FileInv`, `ReportsInv`, `ClientInv`, `ProcessInv`) were checked on such instances
first, and on slightly larger ones; now that they are proved, the runs check the
properties they were found for. Symmetry is used for sets whose members are only
compared, and not in the runs with liveness.

Each property has a mutant of the code in the module (an operator named after
the mistake, in front of the original), under which TLC finds it violated.

Five runs show disagreements between the code and what it says of itself:

- `login`: a client is in the registry before `LOGIN_SUCCESS` is sent, so a
  message of another thread can come first. The client takes the first frame
  for the result of the login and gives up.
- `read_error`: if reading the file fails in the middle of a download, the
  `send_mutex` is released before the connection is closed, and a broadcast can
  be written where the client expects file data.
- `stall`: threads wait for the `send_mutex` of a slot with `clients_mutex` held.
  If the owner of the `send_mutex` is blocked in `send` to a client that does not
  read, the whole server waits for that client.
- `listing`: a listing clears `errno` once, before the loop. An entry that another
  program removes before `fstatat` leaves `ENOENT`, and the listing then fails at
  its end with no failing call but that, although the comment at
  `file_manager.c:1677` says that the entry is skipped.
- `upload`: while an upload is active, the client takes every `MSG_ERROR` for its
  answer, also the answer to an earlier request. The upload gives up, the server
  later says `UPLOAD_READY`, and the next command is read as file data. If that is
  another upload, it takes `UPLOAD_READY` and `UPLOAD_SUCCESS` of the first for its
  own and returns 0, "upload successful" in `client/upload_client.h`, although the
  server never saw it. The proof of `UploadTruth` met this case, which takes one
  command more than the run `client` has; the property is stated for an upload
  whose result is its own (`by = num`), and a refusal as long as no upload was
  misled (`AnswersOwn`).

Other disagreements are stated as the exceptions of properties, and TLC finds each
when the exception is dropped:

- `UploadReturns`: an upload resets `connection_closed`. If the receiver has ended
  just before and the first send still succeeds, nobody will tell the upload that
  the connection is gone, and it waits forever. This is also why the run `client`
  does not check for deadlock.
- `UploadReturns`, `UploadTruth`: for an empty file the final answer may come before
  the upload resets `response_available` (`upload_client.c:604`), and is lost.
- `ServingReachable`: a second daemon unlinks the path of the first, and the first
  on its way out the path of the second, which then serves nobody.
- `ShutdownEnds`: a signal between the test of `running` and `accept` has no effect
  until the next connection or signal.

Above `INT_MAX` a client id is taken for an error, and the entry stays in the
registry after the socket is closed. `RegistryConsistent` is stated and proved below 2^31 logins.

Fairness. A thread that can take a step eventually takes it (the scheduler is
preemptive, mutexes are held for finitely many steps), and a thread waiting for
input from a peer that has closed or reset its connection learns it (a FIN or RST
arrives; a peer that vanishes silently is a stalled one). `live` has no stalling peers:
the code sets no timeout on a socket, and `stall` shows what follows. `file_live`
assumes that an uploading client sends or its connection breaks. Weak fairness
of the lock is enough because the requests are finitely many; the kernel's locks
promise no more, and a stream of overlapping downloads could delay an upload
without end. In `client` the two threads and the server's handler go on, the
server notices that a client has shut its socket down, and the user need not type
anything. In `processes` the threads go on, a log call returns when it can, and a
daemon that runs keeps reading; that is the assumption under which the README's
promise that logging does not disrupt the service holds. A stopped daemon with a
full queue breaks it, since `sendto` has no timeout.

## 4. Proofs

Every invariant and action property that a passing run checks is also a theorem,
for every value of the constants that satisfies the hypotheses named below
(`MaxRemovals = 0` for `ListingFailsForCause`, which the run `listing` refutes
otherwise). Each
component has an inductive invariant, in its `Inv` module (that of the server
process is in `ServerMainProofs`); the theorems follow from it.

### The registry and the streams

`ClientManagerProofs` proves, for every number of connections, descriptors,
slots, users and blocks:

- `TypeCorrect`: `TypeOK`, with the wrapping id counter and no other assumption
  than those on the constants;
- under `NoOverflow` (fewer than 2^31 logins): `RegistryInvariant`,
  `UniqueUsernames`, `RegistryIsConsistent`, `WritesReachAddressee`,
  `LimitWhenFull`;
- under `NoOverflow` and without read errors: `StreamsStayWhole`.

The argument. None of the properties is inductive. That a write reaches its
addressee depends on the slot not being cleared during the write, hence on who
holds which mutex (`MutexInv`), on the descriptor not being closed while its
entry exists (`SocketInv`, `EntryInv`), on ids not being reused (`IdInv`), and on
what the thread knows about the slot it has resolved (`PlaceInv`, `HeldInv`).
Their conjunction `RegistryInv` is inductive. For the streams, `RegistryInv`
gives that a connection has at most one writer (`SoleWriter`): the owner of the
slot's `send_mutex`, or the connection's own thread before it is registered, when
nobody else knows the descriptor. `StreamInv` then says that the client expects
just what the writer writes next. For the limit, only a thread that found no free
slot is refused, and then `EntryInv` makes the owner of an entry a bijection from
the slots to the logged-in connections. Lemmas group the actions by what they do
to the invariant (leave a slot, acquire one, go on writing), so that each action
is proved by citing one.

### The messages

`ClientMessageProofs` proves under `NoOverflow`, for every number of connections
and requests, read errors included: `MessageInvariant`, `BroadcastsOrdered`,
`BroadcastsComplete`, `DeliveredCounts`, `PrivateOutcomes`.

The argument. The properties speak of frames that were written long ago and of
snapshots whose members have come and gone, so `MessageInv` has to say how both
are related to what a thread is doing now. Requests number the messages, and the
numbers only grow: what a thread is sending is at least as new as its messages
on the wire and newer than its answers (`WireInv`), so that an answer once
written is about a message that nothing written later belongs to
(`ReportedStays`). A target of a snapshot stays what it was: its id names one
connection for ever, which keeps its slot until it leaves (`SnapshotInv`, from
`RegistryInv`). Whoever has the current message is a target that was served
(`ServedInv`), so a client about to be served does not have it yet (`NotServed`):
this gives order, no duplicates, and that a successful send adds exactly one to
the recipients (`CountInv`). A served target that is still registered has the
message unless its link broke (`CompleteInv`): the send returned 0 and wrote it,
or 1 because the slot had another client, or -1 because the connection failed
(`Because`). Every action is first shown to be of one of six kinds
(`NextKind`: it keeps, quietly replaces, starts, answers or advances a message, or
writes a download header), and every conjunct is proved for the kinds.

### The files

`FileManagerProofs` proves, for every number of threads, names, blocks, requests,
failing calls, exits and foreign programs' changes, from `FileManagerAssumption`
alone (the bounds are naturals, `None` is no inode or name):

- `FileTypes`: `TypeOK`; `FileInvariant`: `FileInv`, inductive with it;
- `FilesStayComplete`, `DownloadsWhole`: what is shared or streamed is a complete
  file of the promised size;
- `DestinationFree`: the exclusive lock protects the check up to `linkat()`;
- `StreamsAligned`: no failed write puts the connection out of step;
- `FilesAreKept`: the action property `FilesKept`;
- `SharedFilesImplemented`: the refinement, `Spec => Shared!Spec`.

The argument. `FilesComplete` is not inductive: when an upload publishes, one has
to know that its file has all its blocks (`WriteInv`: written plus remaining
blocks are the promised ones until a write fails), and while it writes, that the
inode is not shared yet (`FreshInv`, from numbers that are never given twice,
`NumInv`). `FreshInv` also covers the inode that keeps its temporary name as a
second name. `DestinationStaysFree` rests on `LockInv`: an exclusive lock
excludes every other lock on the name. `OwedInv` ties what the client still has
to send to what the loop still receives. Types and invariant are proved together,
because that an upload never grows past its promised size is a type fact that
needs `WriteInv`. A lemma per kind of step (leave for the cleanup, go on under the
lock, create, receive, publish, open) is cited by each action.

The refinement rests on the same invariant. No step changes the inode behind a
shared name (`KeptStep`) or behind an open download (`OpenKept`), so the mapped
state changes only where names or streams do: a successful `linkat` is `Publish` by
`WriteInv`, a successful `openat` is `Open` by `FilesComplete`, the end of a stream is
`Close`, an exit `CloseAll`, and everything else stutters (`HiddenStep`).

`FileOutcomeProofs` proves, from the same assumptions and `NoneIsNoReply` (the
placeholder for "no reply" is none of the replies):

- `TempsAreRemoved`, `UploadsReported`: every path of an upload removes its
  temporary file unless that removal itself fails or the server ends, whatever
  else fails, and its answer says what became of the file;
- `ListingsFaithful`, and `ListingsFailForCause` for `MaxRemovals = 0`.

The argument. `ReportsInv` is inductive on top of `FileInv`. What a thread
reports has to be true from the report to the end of the request while other
threads go on: a published file stays until another program removes it, and the
number of an upload that failed is on no name and no longer in a place from which
it could be published (`ReportInv`, with `FreshInv`). That a temporary file is
removed needs that `temp_created` is set wherever one exists (`TempInv`). That a
listing fails only for a cause needs that, without removals, `errno` is clean in its
loop until a call fails (`CauseInv`). A listing
takes no lock; what it has sent stays complete because no thread writes to a shared
inode (`SentInv`, again from `FreshInv`), and an entry it has read and not sent was not regular
(`ListInv`).

### The client

`ChatClientProofs` and `ChatUploadProofs` prove, for every number of names,
blocks, commands, failing calls and steps of other programs, from
`ChatClientAssumption` and `NoneIsNoFile` (the placeholder for "no file" is not a
file record):

- `DownloadInvariant`, `ClientTypes`, `LocalFilesComplete`, `DownloadsTrue`,
  `DownloadStreamAgreed`, and the action property `LocalFilesKept`;
- `ClientInvariant`, `UploadStreamAgreed`, `UploadsTrue`.

The argument. Answers carry no number in the code; the model's numbers say which
request an answer belongs to, and `OrderInv` that they grow along the stream: every
request still in `to_server` is newer than everything the server has dealt with
(`Past`). For downloads, `Framed` describes the server's stream as a whole: it
begins with the blocks the receiver still waits for, every other block belongs to
the `DOWNLOAD_READY` before it, and all that it promises are there. A step of the
receiver takes the head off, a step of the server appends, and both keep this form
(`FramedTail` and its kin). A download is younger than every file of the
directory (`FreshInv`), which is why it cannot write into one of them, and what it
has written is what it has received until a write fails (`WriteInv`).

For uploads, one part holds always: what the server knows under the number of the
current upload is that upload, and a success under that number means it is shared
(`PublishInv`), so a result taken from the upload's own answer is true. The other
part holds as long as no upload was misled: the metadata are the last thing in
`to_server`, while the server receives data it is those of the current upload, and
what it still expects is what is under way and what is not yet sent (`StreamInv`,
`DataInv`, `FrameInv`). It has to be stated up to the step at which an upload is
*about* to return with a foreign answer (`Own`), because from that step on the
client may send a frame where the server expects data; what is already in the
stream is still right then, and `OwnInv` keeps the two conditions apart.

### The server process and its logger

`ServerMainProofs` proves, for every number of connections, starts of daemons,
failing calls and signals, from `LoggerAssumption` and `ServerMainAssumption`:

- `ProcessTypes`: `TypeOK`; `ProcessInvariant`: `ProcessInv`, inductive with it;
- `DaemonReachable`: a receiving daemon is the one behind the path;
- `StartsReplaceStalePath`: no start fails because of a path left behind;
- `DescriptorsHaveOwners`, `ServerStopsForCause`.

The argument. `ServingReachable` needs that without overlap there is one daemon
at a time, so that the path is its own from `bind()` to `close()` and nobody else
unlinks it (`SoleDaemon`). `StalePathReplaced` needs the other half of it: between
`unlink()` and `bind()` of the only daemon the path stays free, however the ones
before it ended. `DescriptorsOwned` needs that the main thread has a connection
just between `accept()` and `pthread_create()`, and that a connection is given away
once (`Ownership`). Steps of the process leave the daemons alone and the other way
round, so each half of the invariant is proved for its own steps.

### Only model-checked

The seven liveness properties: `RequestsEnd` and `Teardown` of the registry,
`RequestsEnd` of the file manager, `UploadReturns` and `QuitEnds` of the client,
`LogCallsReturn` and `ShutdownEnds` of the server process. Liveness under fairness
and `ENABLED` are out of the prover's reach. The five runs that expect a violation
are counterexamples and have nothing to prove; what is proved next to them is the same property under the condition
that the counterexample breaks (`StreamsStayWhole` without read errors, `UploadStreamAgreed` for own
answers, `ListingsFailForCause` without removals).

## 5. Plan

1. An abstract chat service (atomic logins, deliveries, logouts) that
   `ClientManager` implements below 2^31 logins, with `MessageInv` as the invariant
   of the refinement.
2. Safety behind the liveness runs: who waits for whom (no cycle of mutexes, a
   thread that waits for a `send_mutex` waits for a writer).

## 6. Not modelled

- The validators of `common/protocol.c` and `common/file_transfer.c`: pure
  functions on strings. The modules keep no text, so `Users` and `Names` are the
  values they accept, and a refused value is an action (`RejectLogin`, `Refuse`).
- The performance timer (only logged), the wording of logs and terminal output,
  the text and timestamp of a log entry, the test programs.
- The queries of the registry that change nothing.
- What the log file contains; a daemon that stops loses the datagrams in its queue.
- Short counts and `EINTR` inside one call of `send_all` or `recv_all`, which loop
  until the count is complete.
- Failures of `pthread_mutex_lock`, `unlock` and `pthread_cond_wait` on mutexes that
  are initialised, not recursive and never destroyed.
- Timeouts: the code has none, on sockets, locks or logins.
