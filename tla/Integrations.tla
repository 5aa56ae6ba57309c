---------------------------- MODULE Integrations ----------------------------
(***************************************************************************)
(* What the application does through the AWS clients: a producer           *)
(* dispatches messages, FileService uploads and downloads files, scripts   *)
(* call the other operations.  Callers interleave; an attempt may have its *)
(* effect and lose the response, and the SDK then sends it again.  An      *)
(* attempt that ended has had its effect or never has.  The queue is seen  *)
(* from its senders' side only (EventsQueue has the consumers).            *)
(***************************************************************************)
EXTENDS Integers, Sequences, SequencesExt, TLC, AwsClients

CONSTANTS
    Caller,
    Jobs,           \* what they do: functions from some of Caller to jobs
    Word,           \* what parts of file names are made of
    Chunk,          \* what contents are made of
    Ascii,          \* a word encoded in UTF-8 and read as ASCII
    Stored,         \* the bucket at the beginning: a function from paths
    MaxSecond,      \* how many seconds pass
    MaxFaults       \* how many callers meet faults

None == <<>>

(* A job: an operation; what it is about (item: a payload, or the file names
   of the header and of the form, or a path); what it bears (value: a schema,
   or a content).  A file name is a sequence of parts, with dots between
   them, of words, with hyphens between them; a content one of chunks.     *)
Field == {"op", "item", "value"}

ASSUME JobsAssumption ==
    /\ IsFiniteSet(Caller)
    /\ \A j \in Jobs : DOMAIN j \subseteq Caller
    /\ \A j \in Jobs : \A c \in DOMAIN j :
          /\ DOMAIN j[c] = Field /\ j[c].op \in Op
          /\ j[c].op = "uploadFile" => j[c].value \in Seq(Chunk)
    /\ \A path \in DOMAIN Stored : Stored[path] \in Seq(Chunk)
ASSUME WordsAssumption == Ascii \in [Word -> Word]
ASSUME BoundsAssumption == MaxSecond \in Nat /\ MaxFaults \in Nat

VARIABLES
    job,            \* one of Jobs
    step,           \* where each caller is
    tries,          \* attempts the SDK has made before
    response,       \* how the attempt in flight ended
    answer,         \* what the caller was told
    body,           \* the chunks a download has read, and those to come
    second,         \* the wall clock, in whole seconds
    began,          \* the second in which a caller began
    seen,           \* the deduplication ids the queue remembers
    sent,           \* how often the message of a caller is in the queue
    bucket,         \* the content at each path, if any
    made,           \* history: how often the service did what a caller asked
    hurt,           \* history: the callers an attempt of which went wrong
    before          \* history: <<c, d>>: c had its answer when d began

vars == <<job, step, tries, response, answer, body, second, began, seen, sent,
          bucket, made, hurt, before>>
sdk == <<tries, response, body, made, hurt>>
services == <<seen, sent, bucket>>

Init ==
    /\ job \in Jobs
    /\ step = [c \in Caller |-> "idle"]
    /\ tries = [c \in Caller |-> 0]
    /\ response = [c \in Caller |-> "none"]
    /\ answer = [c \in Caller |-> "none"]
    /\ body = [c \in Caller |-> [read |-> None, rest |-> None]]
    /\ second = 0
    /\ began = [c \in Caller |-> 0]
    /\ seen = {}
    /\ sent = [c \in Caller |-> 0]
    /\ bucket = Stored
    /\ made = [c \in Caller |-> 0]
    /\ hurt = {}
    /\ before = {}

(* Mutant of buildDeduplicationId: the second decides. *)
DeduplicateByTime(c) == <<"payload", began[c]>>

(* Of the payload and the second only: neither schema nor id is in it. *)
buildDeduplicationId(c) == <<job[c].item, began[c]>>

(* The name without its extension, dots replaced by hyphens; the extension. *)
getFileNameWithExtension(name) ==
    IF Len(name) < 2 THEN [name |-> name[1], extension |-> None]
    ELSE [name |-> FlattenSeq(Front(name)), extension |-> Last(name)]

changeBufferEncoding(words) == [i \in DOMAIN words |-> Ascii[words[i]]]

(* Where an upload goes: the name the header gives it, the extension of the
   file in the form or else of the header.                                 *)
filePath(item) ==
    LET header == getFileNameWithExtension(item[1])
        original == getFileNameWithExtension(item[2])
    IN  <<changeBufferEncoding(header.name),
          CASE original.extension # None -> changeBufferEncoding(original.extension)
            [] header.extension # None   -> changeBufferEncoding(header.extension)
            [] OTHER                     -> <<"undefined">>>>

Path(c) == IF job[c].op = "uploadFile" THEN filePath(job[c].item) ELSE job[c].item

(* The content of the bucket at a path: none, where there is no object. *)
At(path) == IF path \in DOMAIN bucket THEN bucket[path] ELSE None

Finished(c, a) ==
    /\ step' = [step EXCEPT ![c] = "done"]
    /\ answer' = [answer EXCEPT ![c] = a]

(* UploadService puts no empty file: it answers the path, and no tag. *)
Begin(c) ==
    /\ c \in DOMAIN job /\ step[c] = "idle"
    /\ began' = [began EXCEPT ![c] = second]
    /\ before' = before \cup {<<d, c>> : d \in {d \in Caller : step[d] = "done"}}
    /\ IF job[c].op = "uploadFile" /\ job[c].value = None
       THEN Finished(c, "untagged")
       ELSE step' = [step EXCEPT ![c] = "asked"] /\ UNCHANGED answer
    /\ UNCHANGED <<job, second, sdk, services>>

(* What the services do: a FIFO queue takes a message whose deduplication
   id it remembers for sent; a bucket keeps the last content put.          *)
Effect(c) ==
    \/ /\ job[c].op = "sendMessage"
       /\ seen' = seen \cup {buildDeduplicationId(c)}
       /\ sent' = [sent EXCEPT ![c] = IF buildDeduplicationId(c) \in seen THEN @ ELSE @ + 1]
       /\ UNCHANGED <<bucket, body>>
    \/ /\ job[c].op = "uploadFile"
       /\ bucket' = [path \in DOMAIN bucket \cup {Path(c)} |->
                        IF path = Path(c) THEN job[c].value ELSE bucket[path]]
       /\ UNCHANGED <<seen, sent, body>>
    \/ /\ job[c].op = "downloadFile"
       /\ body' = [body EXCEPT ![c] = [read |-> None, rest |-> At(Path(c))]]
       /\ UNCHANGED services
    \/ /\ job[c].op \notin {"sendMessage", "uploadFile", "downloadFile"}
       /\ UNCHANGED <<services, body>>

(* At most MaxFaults callers meet faults, each as often as it tries. *)
Faulty(c) == c \in hurt \/ Cardinality(hurt) < MaxFaults

Missing(c) == job[c].op = "downloadFile" /\ At(Path(c)) = None

(* An attempt at the service, and how it ends. *)
Attempt(c) ==
    /\ step[c] = "asked"
    /\ step' = [step EXCEPT ![c] = "attempted"]
    /\ \/ \E r \in Done(job[c].op) :
            /\ ~Missing(c)
            /\ r = "lost" => Faulty(c)
            /\ response' = [response EXCEPT ![c] = r]
            /\ made' = [made EXCEPT ![c] = @ + 1]
            /\ hurt' = IF r = "lost" THEN hurt \cup {c} ELSE hurt
            /\ Effect(c)
       \/ \E r \in Undone :
            /\ (Missing(c) /\ r = "refused") \/ Faulty(c)
            /\ response' = [response EXCEPT ![c] = r]
            /\ hurt' = hurt \cup {c}
            /\ UNCHANGED <<made, body, services>>
    /\ UNCHANGED <<job, tries, answer, second, began, before>>

(* dispatch captures what sendMessage throws and answers null; FileService
   and the callers of the other operations pass it on.                     *)
Told(c, a) == IF job[c].op = "sendMessage" /\ a = "thrown" THEN "null" ELSE a

(* Mutant of Retry: the deduplication id is built for each attempt. *)
RetryAnew(c) ==
    /\ step[c] = "attempted" /\ response[c] \in Retried
    /\ tries[c] + 1 < maxAttempts(job[c].op)
    /\ tries' = [tries EXCEPT ![c] = @ + 1]
    /\ step' = [step EXCEPT ![c] = "asked"]
    /\ began' = [began EXCEPT ![c] = second]
    /\ UNCHANGED <<job, response, answer, body, second, services, made, hurt, before>>

Retry(c) ==
    /\ step[c] = "attempted" /\ response[c] \in Retried
    /\ tries[c] + 1 < maxAttempts(job[c].op)
    /\ tries' = [tries EXCEPT ![c] = @ + 1]
    /\ step' = [step EXCEPT ![c] = "asked"]
    /\ UNCHANGED <<job, response, answer, body, second, began, services, made, hurt, before>>

Receive(c) ==
    /\ step[c] = "attempted"
    /\ response[c] \in Retried => tries[c] + 1 >= maxAttempts(job[c].op)
    /\ IF job[c].op = "downloadFile" /\ Reading(job[c].op, response[c]) = "ok"
       THEN step' = [step EXCEPT ![c] = "streaming"] /\ UNCHANGED answer
       ELSE Finished(c, Told(c, Reading(job[c].op, response[c])))
    /\ UNCHANGED <<job, second, began, before, sdk, services>>

(* toBuffer reads the stream chunk by chunk and joins them. *)
ReadChunk(c) ==
    /\ step[c] = "streaming" /\ body[c].rest # None
    /\ body' = [body EXCEPT ![c] = [read |-> Append(@.read, Head(@.rest)), rest |-> Tail(@.rest)]]
    /\ UNCHANGED <<job, step, tries, response, answer, second, began, services, made, hurt, before>>

Serve(c) ==
    /\ step[c] = "streaming" /\ body[c].rest = None
    /\ Finished(c, "ok")
    /\ UNCHANGED <<job, second, began, before, sdk, services>>

(* Mutant of Break: what was read so far is the file. *)
BreakOff(c) ==
    /\ step[c] = "streaming" /\ body[c].rest # None /\ body[c].read # None
    /\ Faulty(c)
    /\ hurt' = hurt \cup {c}
    /\ Finished(c, "ok")
    /\ UNCHANGED <<job, tries, response, body, second, began, before, made, services>>

(* The stream breaks, and nobody sends the command again. *)
Break(c) ==
    /\ step[c] = "streaming"
    /\ Faulty(c)
    /\ hurt' = hurt \cup {c}
    /\ Finished(c, "thrown")
    /\ UNCHANGED <<job, tries, response, body, second, began, before, made, services>>

Tick ==
    /\ second < MaxSecond
    /\ second' = second + 1
    /\ UNCHANGED <<job, step, answer, began, before, sdk, services>>

Next ==
    \/ \E c \in Caller : Begin(c) \/ Attempt(c) \/ Retry(c) \/ Receive(c)
                         \/ ReadChunk(c) \/ Serve(c) \/ Break(c)
    \/ Tick

Spec == Init /\ [][Next]_vars

(***************************************************************************)
(* Properties.                                                             *)
(***************************************************************************)

Senders == {c \in DOMAIN job : job[c].op = "sendMessage"}

TypeOK ==
    /\ job \in Jobs
    /\ step \in [Caller -> {"idle", "asked", "attempted", "streaming", "done"}]
    /\ tries \in [Caller -> 0 .. 2]
    /\ response \in [Caller -> {"none", "full", "bare", "lost"} \cup Undone]
    /\ answer \in [Caller -> {"none", "ok", "empty", "thrown", "null", "untagged"}]
    /\ second \in 0 .. MaxSecond
    /\ began \in [Caller -> 0 .. MaxSecond]
    /\ sent \in [Caller -> Nat]
    /\ made \in [Caller -> Nat]

(* What makes sending again harmless: the queue remembers the id of every
   message it took, and took one message for each id.                      *)
Deduplicated ==
    /\ \A c \in Senders :
           /\ sent[c] <= 1 /\ sent[c] <= made[c]
           /\ made[c] > 0 => buildDeduplicationId(c) \in seen
    /\ \A id \in seen : \E c \in Senders : sent[c] = 1 /\ buildDeduplicationId(c) = id

(* What an attempt's end tells of what the service did, until the caller
   has its answer.                                                         *)
Accounted ==
    \A c \in Caller :
        /\ step[c] = "idle" => made[c] = 0 /\ tries[c] = 0
        /\ step[c] = "asked" /\ tries[c] = 0 => made[c] = 0
        /\ step[c] = "attempted" =>
              /\ response[c] \in {"full", "bare", "lost"} => made[c] > 0
              /\ response[c] \in Undone /\ tries[c] = 0 => made[c] = 0
              /\ response[c] = "bare" => job[c].op \in Demanding
              /\ response[c] # "none"
        /\ step[c] = "streaming" => job[c].op = "downloadFile" /\ made[c] > 0
        /\ step[c] # "done" => answer[c] = "none"
        /\ step[c] # "idle" => c \in DOMAIN job

(* What the callers and the queue make of a call. *)
CallsInv == TypeOK /\ Deduplicated /\ Accounted

(* The uploads to a path. *)
Puts(path) ==
    {u \in DOMAIN job : job[u].op = "uploadFile" /\ job[u].value # None /\ Path(u) = path}

(* The object at a path is the one that was there, and no upload has had its
   effect, or else that of an upload after which no other began and had one.*)
ObjectsAreOfUploads ==
    \A path \in DOMAIN bucket :
        \/ \E u \in Puts(path) :
              /\ made[u] > 0 /\ bucket[path] = job[u].value
              /\ \A w \in Puts(path) : made[w] > 0 => <<u, w>> \notin before
        \/ /\ path \in DOMAIN Stored /\ bucket[path] = Stored[path]
           /\ \A w \in Puts(path) : made[w] = 0

(* A download has one object, in two halves: what it read and what is to come. *)
Overwrites(w, d) == w \in Puts(Path(d)) /\ answer[w] = "ok" /\ <<w, d>> \in before

Object(d) == body[d].read \o body[d].rest

Fresh(d, object) ==
    \/ \E u \in Puts(Path(d)) :
          /\ step[u] # "idle" /\ <<d, u>> \notin before
          /\ object = job[u].value
          /\ \A w \in Caller : Overwrites(w, d) => <<u, w>> \notin before
    \/ /\ Path(d) \in DOMAIN Stored /\ object = Stored[Path(d)]
       /\ \A w \in Caller : ~Overwrites(w, d)

DownloadsAreFresh ==
    \A d \in DOMAIN job : job[d].op = "downloadFile" =>
        /\ made[d] > 0 => Fresh(d, Object(d))
        /\ answer[d] = "ok" => made[d] > 0 /\ body[d].rest = None

FilesInv ==
    /\ body \in [Caller -> [read : Seq(Chunk), rest : Seq(Chunk)]]
    /\ \A path \in DOMAIN bucket : bucket[path] \in Seq(Chunk)
    /\ before \subseteq (DOMAIN job) \X (DOMAIN job)
    /\ \A c, d \in DOMAIN job : <<c, d>> \in before => step[c] = "done" /\ step[d] # "idle"
    /\ \A c \in DOMAIN job :
          step[c] \in {"asked", "attempted"} /\ job[c].op = "uploadFile" => job[c].value # None
    /\ ObjectsAreOfUploads /\ DownloadsAreFresh

(* The invariant the theorems rest on: the queue takes an id once, how a call
   and its attempts ended tells what the service did, and the bucket and the
   downloads hold what some upload put, the last one or one that raced it.  *)
IntegrationsInv == CallsInv /\ FilesInv

(* However often the SDK sends it again, a dispatched message is at most
   once in the queue; and one whose dispatch answered an id is there, or
   else its twin, dispatched in the same second with the same payload.     *)
DispatchedOnce ==
    \A c \in Senders :
        /\ sent[c] <= 1
        /\ answer[c] = "ok" =>
              \E d \in Senders : sent[d] = 1 /\ job[d].item = job[c].item /\ began[d] = began[c]

(* A caller of an operation that looks at the status only, and got an empty
   success: it is told that all went well, whatever was done.              *)
Credulous(c) == Wants[job[c].op] = "status" /\ response[c] = "blank"

(* Whoever is told of success gets what it asked for, unless it looks at the
   status only and something in between answered for the service; and a
   failure the SDK did not try again after means that nothing was done,
   except by the operations that ask too much of a success.                *)
AnswersAreTrue ==
    \A c \in DOMAIN job :
        /\ answer[c] = "ok" => made[c] > 0 \/ Credulous(c)
        /\ /\ answer[c] \in {"thrown", "null"}
           /\ tries[c] = 0
           /\ job[c].op \notin Demanding \cup {"downloadFile"}
           => made[c] = 0

(* A download serves, whole, a file that was uploaded to the path, and none
   that an upload overwrote that began after the file's own had ended and
   ended before the download began.                                        *)
FreshFiles ==
    \A d \in DOMAIN job :
        job[d].op = "downloadFile" /\ answer[d] = "ok" => Fresh(d, body[d].read)
=============================================================================
