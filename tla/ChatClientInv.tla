---------------------------- MODULE ChatClientInv ----------------------------
(***************************************************************************)
(* The inductive invariant of ChatClient, from which ChatClientProofs      *)
(* derives its properties.                                                 *)
(***************************************************************************)
EXTENDS ChatClient

Elements(q) == {q[i] : i \in 1 .. Len(q)}

DownloadPcs == {"dl_open", "dl_recv", "dl_link", "dl_unlink"}

\* The receiver exists from the login on.
PhaseInv ==
    mpc \in {"connect", "greet", "user", "result", "exit"} => rpc = "none"

-----------------------------------------------------------------------------
(* Names and numbers of requests.                                          *)

\* Frames and steps that are about a file name one.
NameInv ==
    /\ \A m \in Elements(to_server) :
          m.type \in {"upload", "download"} => m.name \in Names
    /\ \A m \in Elements(to_client) :
          m.type = "DOWNLOAD_READY" => m.name \in Names
    /\ rpc \in DownloadPcs => download.name \in Names
    /\ \A f \in saved : f.name \in Names
    /\ srv = "data" => srv_upload.name \in Names
    /\ mpc = "up_lock" \/ Uploading => upload.name \in Names

\* A request that the server has to answer.
Request(m) == m.type \in {"ask", "upload", "download"}

\* The last number under which a request may have been sent.
Issued == IF mpc \in {"up_lock", "up_meta"} THEN ncmd - 1 ELSE ncmd

\* The numbers of requests that the server has read, as far as they matter.
Past ==
    {m.num : m \in Elements(to_client) \union {response, answer}}
        \union {srv_upload.num, download.num}
        \union {shared[n].num : n \in {x \in Names : shared[x] # None}}
        \union {local[n] : n \in {x \in Names : local[x] \in Requests}}
        \union {o.by : o \in {x \in outcome : x.result # -1}}

PastUpTo(b) == \A k \in Past : k <= b

Increasing(q) ==
    \A i, j \in 1 .. Len(q) :
        i < j /\ Request(q[i]) /\ Request(q[j]) => q[i].num < q[j].num

\* Requests are numbered in the order they are sent, and a number is not used
\* again.
OrderInv ==
    /\ mpc \in {"up_lock", "up_meta"} => upload.num = ncmd /\ ncmd > 0
    /\ Increasing(to_server)
    /\ PastUpTo(Issued)
    /\ \A m \in Elements(to_server) : Request(m) =>
          /\ 0 < m.num /\ m.num <= Issued
          /\ PastUpTo(m.num - 1)

-----------------------------------------------------------------------------
(* Downloads.                                                              *)

ReadyIncreasing(q) ==
    \A i, j \in 1 .. Len(q) :
        i < j /\ q[i].type = "DOWNLOAD_READY" /\ q[j].type = "DOWNLOAD_READY" =>
            q[i].num < q[j].num

\* Every download is younger than the files that are there, apart from those of
\* other programs.
FreshInv ==
    /\ ReadyIncreasing(to_client)
    /\ \A m \in Elements(to_client) : m.type = "DOWNLOAD_READY" =>
          /\ 0 < m.num
          /\ \A n \in Names : local[n] \in Requests => local[n] < m.num
          /\ rpc \in DownloadPcs => download.num < m.num
    /\ rpc \in DownloadPcs => 0 < download.num
    /\ rpc \in {"dl_open", "dl_recv", "dl_link"} =>
          \A n \in Names : local[n] \in Requests => local[n] < download.num

\* What a download has written is what it has received, until a write fails.
WriteInv ==
    /\ \A k \in LocalFiles : k \notin 1 .. MaxCommands =>
          content[k].len = content[k].size
    /\ download.left <= download.size
    /\ rpc \notin {"dl_open", "dl_recv"} => download.left = 0
    /\ rpc = "dl_open" => download.left = download.size
    /\ rpc = "dl_link" => ~download.failed
    /\ rpc \in {"dl_recv", "dl_link"} /\ ~download.failed =>
          /\ temp = download.num
          /\ content[download.num] =
                [size |-> download.size, len |-> download.size - download.left]
    /\ rpc = "dl_unlink" =>
          /\ local[download.name] = download.num
          /\ content[download.num] = [size |-> download.size, len |-> download.size]

\* Element i of q is data that a DOWNLOAD_READY in q announces.
Announced(q, i) ==
    \E j \in 1 .. Len(q) :
        q[j].type = "DOWNLOAD_READY" /\ j < i /\ i <= j + q[j].size

\* q begins with k raw blocks; every other raw block belongs to the
\* DOWNLOAD_READY before it, and all that it promises are there.
Framed(q, k) ==
    /\ k <= Len(q)
    /\ \A i \in 1 .. Len(q) :
          q[i].type = "DOWNLOAD_READY" => i + q[i].size <= Len(q)
    /\ \A i \in 1 .. Len(q) :
          q[i].type = "RAW" <=> i <= k \/ Announced(q, i)

FramedInv ==
    rpc \notin {"stop", "dl_stop", "ended"} => Framed(to_client, download.left)

-----------------------------------------------------------------------------
(* Uploads.                                                                *)

\* Answers in the stream or in the response slot.
Coming == Elements(to_client) \union (IF response_available THEN {response} ELSE {})

\* No upload was misled, and none is just being misled.
Own == AnswersOwn /\ (mpc \in {"up_refused", "up_idle"} => answer.num = upload.num)

\* What the server knows of the upload with the current number is that upload.
MatchInv ==
    /\ \A m \in Elements(to_server) :
          m.type = "upload" /\ m.num = upload.num =>
              m.name = upload.name /\ m.size = upload.size
    /\ srv = "data" =>
          /\ srv_upload.num > 0
          /\ srv_upload.num = upload.num => srv_upload = upload
          /\ \A n \in Names : shared[n] # None => shared[n].num # srv_upload.num

\* An answer SUCCESS means that the upload is shared, an ERROR that it never
\* will be.
AnsweredInv ==
    \A m \in Elements(to_client) \union {response, answer} :
        m.num = upload.num =>
            /\ m.type = "UPLOAD_SUCCESS" =>
                  upload.name \in Names /\ shared[upload.name] = upload
            /\ m.type = "ERROR" /\ upload.num > 0 =>
                  /\ ~(srv = "data" /\ srv_upload.num = upload.num)
                  /\ \A n \in Names : shared[n] # None => shared[n].num # upload.num

\* Only frames for uploads get into the response slot.
SlotInv ==
    /\ response_available => response.type \in {"ERROR", "UPLOAD_READY", "UPLOAD_SUCCESS"}
    /\ mpc \in {"up_refused", "up_idle"} =>
          answer.type \in {"ERROR", "UPLOAD_READY", "UPLOAD_SUCCESS"}
    /\ mpc = "up_refused" => answer.type # "UPLOAD_READY"
    /\ mpc = "up_lock" \/ Uploading => upload.num > 0

PublishInv == MatchInv /\ AnsweredInv /\ SlotInv

UploadLast(q) == \A i \in 1 .. Len(q) : q[i].type = "upload" => i = Len(q)

\* The metadata are the last thing in the client's stream; an upload that the
\* server receives gets raw blocks, no more than it expects; otherwise the
\* server gets frames only.
StreamInv ==
    /\ UploadLast(to_server)
    /\ srv = "data" =>
          /\ \A m \in Elements(to_server) : m.type = "RAW"
          /\ Len(to_server) <= srv_left
    /\ srv \notin {"data", "closed"} =>
          \A m \in Elements(to_server) : m.type # "RAW"

\* The upload has given up.
Lost == mpc \in {"join", "done"} /\ shut

\* While the metadata are in the stream the upload waits.
MetadataInv ==
    \A m \in Elements(to_server) : m.type = "upload" =>
        m.num = upload.num /\ (mpc = "up_wait" \/ Lost)

\* The server receives the current upload, and has to receive what was sent
\* and what is not yet sent.
DataInv ==
    srv = "data" =>
        /\ srv_upload.num = upload.num
        /\ \/ /\ mpc \in {"up_wait", "up_start"}
              /\ to_server = <<>> /\ srv_left = upload.size
           \/ /\ mpc \in {"up_data", "up_final"}
              /\ srv_left = Len(to_server) + unsent
              /\ mpc = "up_final" => unsent = 0
           \/ Lost

\* While there are blocks to send the server is ready for them.
FrameInv ==
    /\ srv # "closed" /\ mpc = "up_start" /\ upload.size > 0 => srv = "data"
    /\ srv # "closed" /\ mpc = "up_data" /\ unsent > 0 => srv = "data"

\* READY is the first answer to the current upload; what the last one says.
AnswerInv ==
    /\ \A i, j \in 1 .. Len(to_client) :
          i < j /\ to_client[j].type = "UPLOAD_READY" => to_client[i].num # upload.num
    /\ response_available /\ response.num = upload.num =>
          \A m \in Elements(to_client) : m.type # "UPLOAD_READY"
    /\ \A m \in Coming : m.type = "UPLOAD_READY" =>
          /\ m.num = upload.num
          /\ mpc = "up_wait" \/ Lost
          /\ mpc = "up_wait" /\ upload.size > 0 /\ srv # "closed" => srv = "data"
    /\ \A m \in Coming : m.num = upload.num /\ m.type = "UPLOAD_SUCCESS" =>
          /\ srv # "data"
          /\ mpc = "up_wait" => upload.size = 0
    /\ mpc \in {"up_refused", "up_idle"} =>
          /\ srv # "data"
          /\ answer.type \in {"ERROR", "UPLOAD_SUCCESS"}
    /\ mpc = "up_refused" /\ upload.size > 0 => answer.type = "ERROR"

\* What was refused is never shared.
RefusedInv ==
    \A o \in outcome : o.result = 1 /\ o.size > 0 =>
        /\ o.num > 0
        /\ ~(srv = "data" /\ srv_upload.num = o.num)
        /\ \A n \in Names : shared[n] # None => shared[n].num # o.num

\* As long as no upload was misled; the second part until one is about to be.
OwnInv ==
    /\ AnswersOwn => StreamInv /\ RefusedInv
    /\ Own => MetadataInv /\ DataInv /\ FrameInv /\ AnswerInv

\* An upload that returned 0 on its own answer is shared.
SharedInv ==
    \A o \in outcome : o.result = 0 /\ o.by = o.num =>
        /\ o.name \in Names
        /\ shared[o.name] = File(o.num, o.name, o.size)

DownloadInv ==
    /\ PhaseInv
    /\ NameInv
    /\ OrderInv
    /\ FreshInv
    /\ WriteInv
    /\ FramedInv
    /\ LocalComplete
    /\ DownloadTruth

UploadInv == PublishInv /\ OwnInv /\ SharedInv

ClientInv == DownloadInv /\ UploadInv
=============================================================================
