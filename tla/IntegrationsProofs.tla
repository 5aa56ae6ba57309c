------------------------- MODULE IntegrationsProofs -------------------------
(***************************************************************************)
(* Proofs about the calls through the AWS clients, for any callers, jobs,  *)
(* clock and number of faults.                                             *)
(***************************************************************************)
EXTENDS Integrations, SequenceTheorems, TLAPS

(* A client reports success for a full response, and for an empty one if it
   looks at the status only.                                               *)
LEMMA ReadingType ==
    ASSUME NEW op, NEW r
    PROVE  /\ Reading(op, r) \in {"ok", "empty", "thrown"}
           /\ Reading(op, r) = "ok" <=> r = "full" \/ (r = "blank" /\ Wants[op] = "status")
  BY DEF Reading

(* Messages and files insist on a field of the response. *)
LEMMA FieldsWanted ==
    \A op \in {"sendMessage", "uploadFile", "downloadFile"} : Wants[op] = "field"
<1>1. ASSUME NEW op \in {"uploadFile", "downloadFile"}
      PROVE  /\ op \in DOMAIN S3Client /\ S3Client[op] = "field"
             /\ op \notin DOMAIN CognitoClient /\ op \notin DOMAIN SnsClient
             /\ op \notin DOMAIN SqsClient
  BY DEF S3Client, CognitoClient, SnsClient, SqsClient
<1>2. /\ "sendMessage" \in DOMAIN SqsClient /\ SqsClient["sendMessage"] = "field"
      /\ "sendMessage" \notin DOMAIN CognitoClient /\ "sendMessage" \notin DOMAIN SnsClient
      /\ "sendMessage" \notin DOMAIN S3Client
  BY DEF CognitoClient, SnsClient, SqsClient, S3Client
<1>3. ASSUME NEW op \in {"uploadFile", "downloadFile"}
      PROVE  Wants[op] = "field"
  BY <1>1 DEF Wants, Op
<1>4. Wants["sendMessage"] = "field"
  BY <1>2 DEF Wants, Op
<1> QED BY <1>3, <1>4

(* What callers are told: success exactly where the client read one. *)
LEMMA ToldType ==
    ASSUME NEW c, NEW a \in {"ok", "empty", "thrown"}
    PROVE  /\ Told(c, a) \in {"ok", "empty", "thrown", "null"}
           /\ Told(c, a) = "ok" <=> a = "ok"
  BY DEF Told

(* The SDK tries twice, or three times. *)
LEMMA AttemptsType == ASSUME NEW op PROVE maxAttempts(op) \in {2, 3}
  BY DEF maxAttempts

(* A caller with a job that is not idle has an operation of the clients. *)
LEMMA OpType ==
    ASSUME TypeOK, NEW c \in DOMAIN job
    PROVE  c \in Caller /\ job[c].op \in Op
  BY JobsAssumption DEF TypeOK

LEMMA InitIntegrations == Init => CallsInv /\ AnswersAreTrue
  BY JobsAssumption, BoundsAssumption
  DEF Init, CallsInv, TypeOK, Deduplicated, Accounted, AnswersAreTrue, Senders

(* Each action keeps what CallsInv says of its caller, and of the
   others; a lemma for each.                                               *)
LEMMA BeginKeeps ==
    ASSUME CallsInv, AnswersAreTrue, NEW c \in Caller, Begin(c)
    PROVE  CallsInv' /\ AnswersAreTrue'
<1> USE DEF CallsInv
<1>1. c \in DOMAIN job /\ step[c] = "idle" /\ made[c] = 0 /\ tries[c] = 0
  BY DEF Begin, Accounted
<1>2. UNCHANGED <<job, tries, response, made, second, seen, sent>>
  BY DEF Begin, sdk, services
<1>3. \/ step' = [step EXCEPT ![c] = "asked"] /\ UNCHANGED answer
      \/ /\ step' = [step EXCEPT ![c] = "done"]
         /\ answer' = [answer EXCEPT ![c] = "untagged"]
         /\ job[c].op = "uploadFile"
  BY DEF Begin, Finished
<1>4. began' = [began EXCEPT ![c] = second]
  BY DEF Begin
<1>5. TypeOK'
  BY <1>2, <1>3, <1>4 DEF TypeOK
<1>6. Deduplicated'
  <2>1. \A d \in Senders : sent[d] = 1 => d # c
    BY <1>1 DEF Deduplicated
  <2>2. \A d \in Senders : d # c => buildDeduplicationId(d)' = buildDeduplicationId(d)
    BY <1>2, <1>4 DEF buildDeduplicationId, Senders, TypeOK
  <2>3. Senders' = Senders
    BY <1>2 DEF Senders
  <2>4. \A d \in Senders : made[d] > 0 => d # c
    BY <1>1
  <2> QED BY <1>2, <2>1, <2>2, <2>3, <2>4 DEF Deduplicated
<1>7. Accounted'
  BY <1>1, <1>2, <1>3 DEF Accounted, TypeOK
<1>8. AnswersAreTrue'
  BY <1>1, <1>2, <1>3, OpType DEF AnswersAreTrue, Credulous, Accounted, TypeOK
<1> QED BY <1>5, <1>6, <1>7, <1>8

LEMMA AttemptKeeps ==
    ASSUME CallsInv, AnswersAreTrue, NEW c \in Caller, Attempt(c)
    PROVE  CallsInv' /\ AnswersAreTrue'
<1> USE DEF CallsInv
<1>1. /\ step[c] = "asked" /\ c \in DOMAIN job /\ job[c].op \in Op
      /\ step' = [step EXCEPT ![c] = "attempted"]
      /\ UNCHANGED <<job, tries, answer, second, began>>
  BY OpType DEF Attempt, Accounted
<1>2. Senders' = Senders /\ \A d : buildDeduplicationId(d)' = buildDeduplicationId(d)
  BY <1>1 DEF Senders, buildDeduplicationId
<1>3. CASE \E r \in Undone : response' = [response EXCEPT ![c] = r] /\ UNCHANGED <<made, services>>
  <2>1. UNCHANGED <<made, seen, sent>>
    BY <1>3 DEF services
  <2>2. Deduplicated'
    BY <2>1, <1>2 DEF Deduplicated
  <2>3. TypeOK' /\ Accounted' /\ AnswersAreTrue'
    BY <1>1, <1>3, <2>1 DEF TypeOK, Accounted, AnswersAreTrue, Credulous, Undone
  <2> QED BY <2>2, <2>3
<1>4. CASE \E r \in Done(job[c].op) :
              /\ response' = [response EXCEPT ![c] = r]
              /\ made' = [made EXCEPT ![c] = @ + 1]
              /\ Effect(c)
  <2>1. PICK r \in Done(job[c].op) :
              /\ response' = [response EXCEPT ![c] = r]
              /\ made' = [made EXCEPT ![c] = @ + 1]
              /\ Effect(c)
    BY <1>4
  <2>2. r \in {"full", "lost", "bare"} /\ (r = "bare" => job[c].op \in Demanding)
    BY DEF Done
  <2>3. made \in [Caller -> Nat] /\ made' \in [Caller -> Nat]
    BY <2>1 DEF TypeOK
  <2>4. made'[c] > 0 /\ \A d \in Caller : made'[d] >= made[d]
    BY <2>1, <2>3
  <2>5. \/ /\ c \in Senders
           /\ seen' = seen \cup {buildDeduplicationId(c)}
           /\ sent' = [sent EXCEPT ![c] = IF buildDeduplicationId(c) \in seen THEN @ ELSE @ + 1]
        \/ c \notin Senders /\ UNCHANGED <<seen, sent>>
    <3>1. CASE job[c].op = "sendMessage"
      BY <1>1, <2>1, <3>1 DEF Effect, Senders
    <3>2. CASE job[c].op = "uploadFile"
      BY <2>1, <3>2 DEF Effect, Senders
    <3>3. CASE job[c].op = "downloadFile"
      BY <2>1, <3>3 DEF Effect, Senders, services
    <3>4. CASE job[c].op \notin {"sendMessage", "uploadFile", "downloadFile"}
      BY <2>1, <3>4 DEF Effect, Senders, services
    <3> QED BY <3>1, <3>2, <3>3, <3>4
  <2>6. sent' \in [Caller -> Nat]
    BY <2>5 DEF TypeOK
  <2>7. TypeOK'
    BY <1>1, <2>1, <2>2, <2>3, <2>6 DEF TypeOK
  <2>8. Deduplicated'
    <3>1. CASE UNCHANGED <<seen, sent>> /\ c \notin Senders
      <4>1. \A d \in Senders : made'[d] = made[d]
        BY <2>1, <3>1 DEF TypeOK
      <4> QED BY <1>2, <3>1, <4>1 DEF Deduplicated
    <3>2. CASE c \in Senders /\ buildDeduplicationId(c) \in seen /\ UNCHANGED <<seen, sent>>
      <4>1. \A d \in Senders : d # c => made'[d] = made[d]
        BY <2>1 DEF TypeOK
      <4>2. \A d \in Senders : sent[d] \in Nat /\ made[d] \in Nat /\ made'[d] \in Nat /\ made'[d] >= made[d]
        BY <2>3, <2>4, OpType DEF Senders, TypeOK
      <4>3. \A d \in Senders : sent[d] <= 1 /\ sent[d] <= made'[d]
        BY <4>2 DEF Deduplicated
      <4>4. \A d \in Senders : made'[d] > 0 => buildDeduplicationId(d) \in seen
        BY <3>2, <4>1 DEF Deduplicated
      <4> QED BY <1>2, <3>2, <4>3, <4>4 DEF Deduplicated
    <3>3. CASE /\ c \in Senders /\ buildDeduplicationId(c) \notin seen
               /\ seen' = seen \cup {buildDeduplicationId(c)}
               /\ sent' = [sent EXCEPT ![c] = @ + 1]
      <4>1. made[c] = 0 /\ sent[c] = 0
        BY <3>3 DEF Deduplicated, TypeOK
      <4>2. made'[c] = 1 /\ sent'[c] = 1
        BY <2>1, <3>3, <4>1 DEF TypeOK
      <4>3. \A d \in Senders : d # c => made'[d] = made[d] /\ sent'[d] = sent[d]
        BY <2>1, <3>3 DEF TypeOK
      <4>4. \A id \in seen : \E d \in Senders : d # c /\ sent[d] = 1 /\ buildDeduplicationId(d) = id
        BY <4>1 DEF Deduplicated
      <4> QED BY <1>2, <3>3, <4>2, <4>3, <4>4 DEF Deduplicated
    <3>4. buildDeduplicationId(c) \in seen /\ c \in Senders => UNCHANGED <<seen, sent>>
      <4>1. ASSUME buildDeduplicationId(c) \in seen, c \in Senders
            PROVE  seen' = seen /\ sent' = [sent EXCEPT ![c] = sent[c]]
        BY <2>5, <4>1
      <4> QED BY <4>1 DEF TypeOK
    <3> QED BY <2>5, <3>1, <3>2, <3>3, <3>4
  <2>9. Accounted'
    BY <1>1, <2>1, <2>2, <2>4 DEF TypeOK, Accounted, Undone
  <2>10. AnswersAreTrue'
    <3>1. answer[c] = "none"
      BY <1>1 DEF Accounted
    <3> QED BY <1>1, <2>1, <2>4, <3>1, OpType DEF AnswersAreTrue, Credulous, TypeOK
  <2> QED BY <2>7, <2>8, <2>9, <2>10
<1> QED BY <1>3, <1>4 DEF Attempt

LEMMA RetryKeeps ==
    ASSUME CallsInv, AnswersAreTrue, NEW c \in Caller, Retry(c)
    PROVE  CallsInv' /\ AnswersAreTrue'
<1> USE DEF CallsInv
<1>1. /\ step[c] = "attempted"
      /\ tries[c] + 1 \in 1 .. 2
      /\ tries' = [tries EXCEPT ![c] = @ + 1]
      /\ step' = [step EXCEPT ![c] = "asked"]
      /\ UNCHANGED <<job, response, answer, second, began, made, seen, sent>>
  BY AttemptsType DEF Retry, TypeOK, services
<1>2. Deduplicated'
  BY <1>1 DEF Deduplicated, Senders, buildDeduplicationId
<1>3. answer[c] = "none"
  BY <1>1 DEF Accounted
<1>4. TypeOK' /\ Accounted'
  BY <1>1 DEF TypeOK, Accounted
<1>5. AnswersAreTrue'
  BY <1>1, <1>3 DEF TypeOK, AnswersAreTrue, Credulous
<1> QED BY <1>2, <1>4, <1>5

(* A caller that ends with an answer its attempts account for. *)
LEMMA FinishedKeeps ==
    ASSUME CallsInv, AnswersAreTrue, NEW c \in DOMAIN job,
           NEW a \in {"ok", "empty", "thrown", "null"},
           Finished(c, a),
           a = "ok" => made[c] > 0 \/ Credulous(c),
           \/ tries[c] > 0 \/ made[c] = 0 \/ a \in {"ok", "empty"}
           \/ job[c].op \in Demanding \cup {"downloadFile"},
           step[c] # "idle",
           UNCHANGED <<job, tries, response, second, began, made, seen, sent>>
    PROVE  CallsInv' /\ AnswersAreTrue'
<1> USE DEF CallsInv
<1>1. c \in Caller
  BY OpType
<1>2. step' = [step EXCEPT ![c] = "done"] /\ answer' = [answer EXCEPT ![c] = a]
  BY DEF Finished
<1>3. Deduplicated'
  BY DEF Deduplicated, Senders, buildDeduplicationId
<1>4. TypeOK' /\ Accounted'
  BY <1>1, <1>2 DEF TypeOK, Accounted
<1>5. AnswersAreTrue'
  BY <1>1, <1>2 DEF TypeOK, AnswersAreTrue, Credulous
<1> QED BY <1>3, <1>4, <1>5

LEMMA ReceiveKeeps ==
    ASSUME CallsInv, AnswersAreTrue, NEW c \in Caller, Receive(c)
    PROVE  CallsInv' /\ AnswersAreTrue'
<1> USE DEF CallsInv
<1> DEFINE a == Reading(job[c].op, response[c])
<1>1. /\ step[c] = "attempted" /\ c \in DOMAIN job
      /\ UNCHANGED <<job, tries, response, second, began, made, seen, sent>>
  BY DEF Receive, Accounted, sdk, services
<1>2. /\ a \in {"ok", "empty", "thrown"}
      /\ a = "ok" <=> response[c] = "full" \/ Credulous(c)
  BY ReadingType DEF Credulous
<1>3. a = "ok" => made[c] > 0 \/ Credulous(c)
  BY <1>1, <1>2 DEF Accounted
<1>4. CASE job[c].op = "downloadFile" /\ a = "ok"
  <2>1. step' = [step EXCEPT ![c] = "streaming"] /\ UNCHANGED answer
    BY <1>4 DEF Receive
  <2>2. Deduplicated'
    BY <1>1 DEF Deduplicated, Senders, buildDeduplicationId
  <2>3. TypeOK' /\ Accounted' /\ AnswersAreTrue'
    BY <1>1, <1>3, <1>4, <2>1, FieldsWanted DEF TypeOK, Accounted, AnswersAreTrue, Credulous
  <2> QED BY <2>2, <2>3
<1>5. CASE ~(job[c].op = "downloadFile" /\ a = "ok")
  <2>1. Finished(c, Told(c, a))
    BY <1>5 DEF Receive
  <2>2. /\ Told(c, a) \in {"ok", "empty", "thrown", "null"}
        /\ Told(c, a) = "ok" <=> a = "ok"
    BY <1>2, ToldType
  <2>3. \/ tries[c] > 0 \/ made[c] = 0 \/ Told(c, a) \in {"ok", "empty"}
        \/ job[c].op \in Demanding \cup {"downloadFile"}
    <3>1. response[c] \in Retried => tries[c] > 0
      BY AttemptsType DEF Receive, TypeOK
    <3>2. response[c] \in Undone => tries[c] > 0 \/ made[c] = 0
      BY <1>1 DEF Accounted, TypeOK
    <3>3. response[c] = "bare" => job[c].op \in Demanding
      BY <1>1 DEF Accounted
    <3>4. response[c] \in {"full", "bare", "lost"} \cup Undone
      BY <1>1 DEF Accounted, TypeOK
    <3> QED BY <1>2, <2>2, <3>1, <3>2, <3>3, <3>4 DEF Retried
  <2> QED BY <1>1, <1>3, <2>1, <2>2, <2>3, FinishedKeeps
<1> QED BY <1>4, <1>5

(* What concerns the stream of a download only. *)
LEMMA StreamKeeps ==
    ASSUME CallsInv, AnswersAreTrue, NEW c \in Caller,
           ReadChunk(c) \/ Serve(c) \/ Break(c) \/ Tick
    PROVE  CallsInv' /\ AnswersAreTrue'
<1> USE DEF CallsInv
<1>1. ASSUME UNCHANGED <<job, step, tries, response, answer, began, made, seen, sent>>,
             second' \in 0 .. MaxSecond
      PROVE  CallsInv' /\ AnswersAreTrue'
  BY <1>1 DEF TypeOK, Deduplicated, Accounted, AnswersAreTrue, Credulous, Senders, buildDeduplicationId
<1>2. CASE ReadChunk(c)
  BY <1>1, <1>2 DEF ReadChunk, services, TypeOK
<1>3. CASE Tick
  BY <1>1, <1>3, BoundsAssumption DEF Tick, sdk, services, TypeOK
<1>4. CASE Serve(c) \/ Break(c)
  <2>1. /\ step[c] = "streaming" /\ c \in DOMAIN job /\ made[c] > 0 /\ job[c].op = "downloadFile"
        /\ UNCHANGED <<job, tries, response, second, began, made, seen, sent>>
        /\ Finished(c, "ok") \/ Finished(c, "thrown")
    BY <1>4 DEF Serve, Break, Accounted, sdk, services
  <2> QED BY <2>1, FinishedKeeps
<1> QED BY <1>2, <1>3, <1>4

LEMMA StepKeeps ==
    CallsInv /\ AnswersAreTrue /\ [Next]_vars => CallsInv' /\ AnswersAreTrue'
<1> SUFFICES ASSUME CallsInv, AnswersAreTrue, [Next]_vars
             PROVE  CallsInv' /\ AnswersAreTrue'
  OBVIOUS
<1>1. CASE UNCHANGED vars
  BY <1>1 DEF vars, CallsInv, TypeOK, Deduplicated, Accounted, AnswersAreTrue, Credulous, Senders,
              buildDeduplicationId
<1>2. ASSUME NEW c \in Caller,
             \/ Begin(c) \/ Attempt(c) \/ Retry(c) \/ Receive(c)
             \/ ReadChunk(c) \/ Serve(c) \/ Break(c)
      PROVE  CallsInv' /\ AnswersAreTrue'
  BY <1>2, BeginKeeps, AttemptKeeps, RetryKeeps, ReceiveKeeps, StreamKeeps
<1>3. CASE Tick
  <2>1. UNCHANGED <<job, step, tries, response, answer, began, made, seen, sent>>
    BY <1>3 DEF Tick, sdk, services
  <2>2. second' \in 0 .. MaxSecond
    BY <1>3, BoundsAssumption DEF Tick, TypeOK, CallsInv
  <2> QED BY <2>1, <2>2 DEF CallsInv, TypeOK, Deduplicated, Accounted, AnswersAreTrue, Credulous,
                            Senders, buildDeduplicationId
<1> QED BY <1>1, <1>2, <1>3 DEF Next

LEMMA CallsAreKept == Spec => [](CallsInv /\ AnswersAreTrue)
  BY InitIntegrations, StepKeeps, PTL DEF Spec

(* AbstractProducer and SqsClient: sending again never doubles a message,
   and an answered dispatch is in the queue, or its twin is.               *)
THEOREM MessagesAreDispatchedOnce == Spec => []DispatchedOnce
<1>1. CallsInv /\ AnswersAreTrue => DispatchedOnce
  <2> SUFFICES ASSUME CallsInv, AnswersAreTrue, NEW c \in Senders
               PROVE  /\ sent[c] <= 1
                      /\ answer[c] = "ok" =>
                            \E d \in Senders : /\ sent[d] = 1
                                               /\ job[d].item = job[c].item
                                               /\ began[d] = began[c]
    BY DEF DispatchedOnce
  <2>1. sent[c] <= 1
    BY DEF CallsInv, Deduplicated
  <2>2. ASSUME answer[c] = "ok"
        PROVE  \E d \in Senders : sent[d] = 1 /\ job[d].item = job[c].item /\ began[d] = began[c]
    <3>1. buildDeduplicationId(c) \in seen
      BY <2>2, FieldsWanted DEF CallsInv, Deduplicated, AnswersAreTrue, Credulous, Senders
    <3>2. PICK d \in Senders : sent[d] = 1 /\ buildDeduplicationId(d) = buildDeduplicationId(c)
      BY <3>1 DEF CallsInv, Deduplicated
    <3>3. job[d].item = job[c].item /\ began[d] = began[c]
      BY <3>2 DEF buildDeduplicationId
    <3> QED BY <3>2, <3>3
  <2> QED BY <2>1, <2>2
<1> QED BY <1>1, CallsAreKept, PTL

(* The AWS clients: success is reported only of what was done, but for the
   operations that take any successful status for it; and a first failure
   only of what was not, but for the operations that ask too much.         *)
THEOREM AnswersCanBeTrusted == Spec => []AnswersAreTrue
  BY CallsAreKept, PTL

(***************************************************************************)
(* The bucket and the downloads.                                           *)
(***************************************************************************)

(* Reading a chunk moves it from one half of an object to the other. *)
LEMMA ChunkMoves ==
    ASSUME NEW S, NEW a \in Seq(S), NEW b \in Seq(S), b # <<>>
    PROVE  /\ Append(a, Head(b)) \in Seq(S) /\ Tail(b) \in Seq(S)
           /\ Append(a, Head(b)) \o Tail(b) = a \o b
<1> DEFINE c == Append(a, Head(b)) \o Tail(b)
           d == a \o b
<1>1. Len(b) > 0 /\ Head(b) \in S /\ Tail(b) \in Seq(S) /\ Len(Tail(b)) = Len(b) - 1
  BY EmptySeq, LenProperties, HeadTailProperties
<1>2. Append(a, Head(b)) \in Seq(S) /\ Len(Append(a, Head(b))) = Len(a) + 1
  BY <1>1, AppendProperties
<1>3. c \in Seq(S) /\ d \in Seq(S) /\ Len(c) = Len(a) + Len(b) /\ Len(d) = Len(a) + Len(b)
  BY <1>1, <1>2, ConcatProperties, LenProperties
<1>4. ASSUME NEW i \in 1 .. Len(c)
      PROVE  c[i] = d[i]
  <2>0. i \in Nat /\ Len(a) \in Nat /\ Len(b) \in Nat
    BY LenProperties
  <2>1. CASE i <= Len(a)
    BY <1>1, <1>2, <1>3, <1>4, <2>0, <2>1
  <2>2. CASE i = Len(a) + 1
    BY <1>1, <1>2, <1>3, <1>4, <2>0, <2>2
  <2>3. CASE i > Len(a) + 1
    BY <1>1, <1>2, <1>3, <1>4, <2>0, <2>3
  <2> QED BY <2>0, <2>1, <2>2, <2>3
<1> HIDE DEF c, d
<1>5. c = d
  BY <1>3, <1>4, SeqEqual
<1> QED BY <1>1, <1>2, <1>5 DEF c, d

LEMMA InitFiles == Init => FilesInv
<1> SUFFICES ASSUME Init PROVE FilesInv
  OBVIOUS
<1>1. None \in Seq(Chunk) /\ \A path \in DOMAIN bucket : bucket[path] \in Seq(Chunk)
  BY JobsAssumption DEF Init, None
<1>2. body \in [Caller -> [read : Seq(Chunk), rest : Seq(Chunk)]]
  BY <1>1 DEF Init
<1>3. DOMAIN job \subseteq Caller /\ \A c \in Caller : made[c] = 0 /\ answer[c] = "none" /\ step[c] = "idle"
  BY JobsAssumption DEF Init
<1>4. ObjectsAreOfUploads
  BY <1>3 DEF Init, ObjectsAreOfUploads, Puts
<1>5. DownloadsAreFresh
  BY <1>3 DEF DownloadsAreFresh
<1> QED BY <1>1, <1>2, <1>3, <1>4, <1>5 DEF FilesInv, Init

(* Where an upload goes never changes. *)
LEMMA PutsStay ==
    ASSUME job' = job
    PROVE  /\ \A c : Path(c)' = Path(c)
           /\ \A path : Puts(path)' = Puts(path)
  BY DEF Path, Puts

(* A download's object stays fresh while those who have begun do not end
   otherwise than they had, and are not overtaken.                         *)
LEMMA FreshStays ==
    ASSUME FilesInv, NEW d \in DOMAIN job, NEW object, Fresh(d, object), step[d] # "idle",
           DOMAIN job \subseteq Caller, job' = job,
           \A u \in DOMAIN job : step[u] # "idle" => step'[u] # "idle",
           \A w \in DOMAIN job : step[w] = "done" => answer'[w] = answer[w],
           before \subseteq before',
           \A u, w \in DOMAIN job : <<u, w>> \in before' /\ step[w] # "idle" => <<u, w>> \in before
    PROVE  Fresh(d, object)'
<1>1. /\ Path(d)' = Path(d) /\ Puts(Path(d))' = Puts(Path(d)) /\ Puts(Path(d)) \subseteq DOMAIN job
  BY PutsStay DEF Puts
<1>2. \A w : Overwrites(w, d)' => Overwrites(w, d) /\ step[w] # "idle" /\ w \in DOMAIN job
  <2> SUFFICES ASSUME NEW w, Overwrites(w, d)'
               PROVE  Overwrites(w, d) /\ step[w] # "idle" /\ w \in DOMAIN job
    OBVIOUS
  <2>1. w \in Puts(Path(d)) /\ w \in DOMAIN job /\ answer'[w] = "ok" /\ <<w, d>> \in before'
    BY <1>1 DEF Overwrites
  <2>2. <<w, d>> \in before
    BY <2>1
  <2>3. step[w] = "done"
    BY <2>1, <2>2 DEF FilesInv
  <2> QED BY <2>1, <2>2, <2>3 DEF Overwrites
<1>3. ASSUME NEW u \in Puts(Path(d)), step[u] # "idle", <<d, u>> \notin before, object = job[u].value,
             \A w \in Caller : Overwrites(w, d) => <<u, w>> \notin before
      PROVE  /\ u \in Puts(Path(d))' /\ step'[u] # "idle" /\ <<d, u>> \notin before'
             /\ object = job'[u].value
             /\ \A w \in Caller : Overwrites(w, d)' => <<u, w>> \notin before'
  BY <1>1, <1>2, <1>3
<1>4. ASSUME Path(d) \in DOMAIN Stored, object = Stored[Path(d)],
             \A w \in Caller : ~Overwrites(w, d)
      PROVE  /\ Path(d)' \in DOMAIN Stored /\ object = Stored[Path(d)']
             /\ \A w \in Caller : ~Overwrites(w, d)'
  BY <1>1, <1>2, <1>4
<1>5. CASE \E u \in Puts(Path(d)) :
            /\ step[u] # "idle" /\ <<d, u>> \notin before
            /\ object = job[u].value
            /\ \A w \in Caller : Overwrites(w, d) => <<u, w>> \notin before
  BY <1>3, <1>5 DEF Fresh
<1>6. CASE /\ Path(d) \in DOMAIN Stored /\ object = Stored[Path(d)]
           /\ \A w \in Caller : ~Overwrites(w, d)
  BY <1>4, <1>6 DEF Fresh
<1> QED BY <1>5, <1>6 DEF Fresh

(* A step that leaves the bucket, and what had an effect, alone. *)
LEMMA FilesStay ==
    ASSUME CallsInv, FilesInv, NEW c \in DOMAIN job,
           UNCHANGED <<job, bucket, made>>,
           body' \in [Caller -> [read : Seq(Chunk), rest : Seq(Chunk)]],
           \A d \in DOMAIN job : Object(d)' = Object(d),
           \A d \in DOMAIN job : d # c =>
              step'[d] = step[d] /\ answer'[d] = answer[d] /\ body'[d] = body[d],
           step[c] # "done" /\ step'[c] # "idle",
           \/ before' = before
           \/ /\ step[c] = "idle"
              /\ before' = before \cup {<<d, c>> : d \in {d \in Caller : step[d] = "done"}},
           step'[c] \in {"asked", "attempted"} /\ job[c].op = "uploadFile" => job[c].value # None,
           answer'[c] = "ok" /\ job[c].op = "downloadFile" => made[c] > 0 /\ body'[c].rest = None
    PROVE  FilesInv'
<1>1. DOMAIN job \subseteq Caller /\ \A d \in Caller : step[d] # "idle" => d \in DOMAIN job
  BY OpType DEF CallsInv, Accounted
<1>2. \A d \in DOMAIN job : made[d] > 0 => step[d] # "idle"
  BY <1>1 DEF CallsInv, Accounted
<1>3. /\ before \subseteq before' /\ before' \subseteq (DOMAIN job) \X (DOMAIN job)
      /\ \A u, w \in DOMAIN job : <<u, w>> \in before' =>
            \/ <<u, w>> \in before
            \/ step[u] = "done" /\ w = c /\ step[c] = "idle"
      /\ \A u, w \in DOMAIN job : <<u, w>> \in before' /\ step[w] # "idle" => <<u, w>> \in before
  <2>1. CASE before' = before
    BY <2>1 DEF FilesInv
  <2>2. CASE /\ step[c] = "idle"
             /\ before' = before \cup {<<d, c>> : d \in {d \in Caller : step[d] = "done"}}
    <3>1. before' \subseteq (DOMAIN job) \X (DOMAIN job)
      BY <1>1, <2>2 DEF FilesInv
    <3>2. \A u, w : <<u, w>> \in before' =>
             <<u, w>> \in before \/ (step[u] = "done" /\ w = c /\ step[c] = "idle")
      BY <2>2
    <3> QED BY <2>2, <3>1, <3>2
  <2> QED BY <2>1, <2>2
<1>4. \A u, w \in DOMAIN job : <<u, w>> \in before' => step'[u] = "done" /\ step'[w] # "idle"
  <2> SUFFICES ASSUME NEW u \in DOMAIN job, NEW w \in DOMAIN job, <<u, w>> \in before'
               PROVE  step'[u] = "done" /\ step'[w] # "idle"
    OBVIOUS
  <2>1. CASE <<u, w>> \in before
    <3>1. step[u] = "done" /\ step[w] # "idle"
      BY <2>1 DEF FilesInv
    <3> QED BY <3>1
  <2>2. CASE step[u] = "done" /\ w = c
    BY <2>2
  <2> QED BY <1>3, <2>1, <2>2
<1>5. ObjectsAreOfUploads'
  <2> SUFFICES ASSUME NEW path \in DOMAIN bucket
               PROVE  \/ \E u \in Puts(path)' :
                            /\ made'[u] > 0 /\ bucket'[path] = job'[u].value
                            /\ \A w \in Puts(path)' : made'[w] > 0 => <<u, w>> \notin before'
                      \/ /\ path \in DOMAIN Stored /\ bucket'[path] = Stored[path]
                         /\ \A w \in Puts(path)' : made'[w] = 0
    BY DEF ObjectsAreOfUploads
  <2>1. Puts(path)' = Puts(path) /\ Puts(path) \subseteq DOMAIN job
    BY PutsStay DEF Puts
  <2>2. \A u, w \in Puts(path) : made[w] > 0 /\ <<u, w>> \in before' => <<u, w>> \in before
    BY <1>2, <1>3, <2>1
  <2> QED BY <2>1, <2>2 DEF FilesInv, ObjectsAreOfUploads
<1>6. DownloadsAreFresh'
  <2> SUFFICES ASSUME NEW d \in DOMAIN job, job[d].op = "downloadFile"
               PROVE  /\ made[d] > 0 => Fresh(d, Object(d))'
                      /\ answer'[d] = "ok" => made[d] > 0 /\ body'[d].rest = None
    BY DEF DownloadsAreFresh
  <2>1. answer'[d] = "ok" => made[d] > 0 /\ body'[d].rest = None
    BY DEF FilesInv, DownloadsAreFresh
  <2>2. ASSUME made[d] > 0, NEW object, object = Object(d)
        PROVE  Fresh(d, object)'
    <3>1. Fresh(d, object)
      BY <2>2 DEF FilesInv, DownloadsAreFresh
    <3>2. \A w \in DOMAIN job : step[w] = "done" => answer'[w] = answer[w]
      OBVIOUS
    <3>3. \A u \in DOMAIN job : step[u] # "idle" => step'[u] # "idle"
      OBVIOUS
    <3> QED BY <1>1, <1>2, <1>3, <2>2, <3>1, <3>2, <3>3, FreshStays
  <2>3. made[d] > 0 => Fresh(d, Object(d))'
    BY <2>2 DEF Fresh
  <2> QED BY <2>1, <2>3
<1>7. \A d \in DOMAIN job :
         step'[d] \in {"asked", "attempted"} /\ job[d].op = "uploadFile" => job[d].value # None
  BY DEF FilesInv
<1> QED BY <1>3, <1>4, <1>5, <1>6, <1>7 DEF FilesInv

LEMMA BeginKeepsFiles ==
    ASSUME CallsInv, FilesInv, NEW c \in Caller, Begin(c)
    PROVE  FilesInv'
<1>1. /\ c \in DOMAIN job /\ step[c] = "idle" /\ made[c] = 0 /\ answer[c] = "none"
      /\ DOMAIN job \subseteq Caller
  BY OpType DEF Begin, CallsInv, Accounted
<1>2. /\ UNCHANGED <<job, bucket, made, body>>
      /\ before' = before \cup {<<d, c>> : d \in {d \in Caller : step[d] = "done"}}
  BY DEF Begin, sdk, services
<1>3. \/ /\ step' = [step EXCEPT ![c] = "asked"] /\ UNCHANGED answer
         /\ job[c].op = "uploadFile" => job[c].value # None
      \/ /\ step' = [step EXCEPT ![c] = "done"]
         /\ answer' = [answer EXCEPT ![c] = "untagged"]
  BY DEF Begin, Finished
<1>4. /\ step'[c] \in {"asked", "done"} /\ answer'[c] # "ok"
      /\ \A d \in DOMAIN job : d # c => step'[d] = step[d] /\ answer'[d] = answer[d]
      /\ step'[c] = "asked" /\ job[c].op = "uploadFile" => job[c].value # None
  BY <1>1, <1>3 DEF CallsInv, TypeOK
<1>5. \A d \in DOMAIN job : Object(d)' = Object(d)
  BY <1>2 DEF Object
<1>6. body' \in [Caller -> [read : Seq(Chunk), rest : Seq(Chunk)]]
  BY <1>2 DEF FilesInv
<1> QED BY <1>1, <1>2, <1>4, <1>5, <1>6, FilesStay

(* What the services do with the object of an upload or a download. *)
LEMMA EffectKeepsFiles ==
    ASSUME CallsInv, AnswersAreTrue, FilesInv, NEW c \in DOMAIN job,
           step[c] = "asked", step' = [step EXCEPT ![c] = "attempted"],
           made' = [made EXCEPT ![c] = @ + 1],
           UNCHANGED <<job, answer, before>>,
           ~Missing(c), Effect(c)
    PROVE  FilesInv'
<1>1. /\ c \in Caller /\ DOMAIN job \subseteq Caller
      /\ \A d \in Caller : step[d] # "idle" => d \in DOMAIN job
      /\ \A d \in DOMAIN job : made[d] > 0 => step[d] # "idle"
  BY OpType DEF CallsInv, Accounted
<1>2. /\ \A d \in Caller : d # c => made'[d] = made[d] /\ step'[d] = step[d]
      /\ made'[c] > 0 /\ step'[c] = "attempted" /\ answer[c] = "none"
  BY <1>1 DEF CallsInv, TypeOK, Accounted
<1>3. \A u : <<c, u>> \notin before
  BY DEF FilesInv
<1>4. /\ \A path : Puts(path)' = Puts(path) /\ Puts(path) \subseteq DOMAIN job
      /\ \A d : Path(d)' = Path(d)
  BY PutsStay DEF Puts
<1>5. /\ job[c].op # "downloadFile" => UNCHANGED body
      /\ job[c].op # "uploadFile" => UNCHANGED bucket
      /\ job[c].op = "uploadFile" =>
            bucket' = [path \in DOMAIN bucket \cup {Path(c)} |->
                          IF path = Path(c) THEN job[c].value ELSE bucket[path]]
      /\ job[c].op = "downloadFile" =>
            body' = [body EXCEPT ![c] = [read |-> None, rest |-> At(Path(c))]]
  BY DEF Effect, services
<1>6. job[c].op = "downloadFile" => Path(c) \in DOMAIN bucket /\ At(Path(c)) = bucket[Path(c)]
  BY DEF Missing, At
<1>7. body' \in [Caller -> [read : Seq(Chunk), rest : Seq(Chunk)]]
  <2>1. CASE job[c].op # "downloadFile"
    BY <1>5, <2>1 DEF FilesInv
  <2>2. CASE job[c].op = "downloadFile"
    <3>1. None \in Seq(Chunk) /\ At(Path(c)) \in Seq(Chunk)
      BY <1>6, <2>2 DEF FilesInv, None
    <3>2. [read |-> None, rest |-> At(Path(c))] \in [read : Seq(Chunk), rest : Seq(Chunk)]
      BY <3>1
    <3> QED BY <1>5, <2>2, <3>2 DEF FilesInv
  <2> QED BY <2>1, <2>2
<1>8. \A path \in DOMAIN bucket' : bucket'[path] \in Seq(Chunk)
  <2>1. job[c].op = "uploadFile" => job[c].value \in Seq(Chunk)
    BY JobsAssumption DEF CallsInv, TypeOK
  <2>2. CASE job[c].op = "uploadFile"
    BY <1>5, <2>1, <2>2 DEF FilesInv
  <2>3. CASE job[c].op # "uploadFile"
    BY <1>5, <2>3 DEF FilesInv
  <2> QED BY <2>2, <2>3
<1>9. ObjectsAreOfUploads'
  <2> SUFFICES ASSUME NEW path \in DOMAIN bucket'
               PROVE  \/ \E u \in Puts(path) :
                            /\ made'[u] > 0 /\ bucket'[path] = job[u].value
                            /\ \A w \in Puts(path) : made'[w] > 0 => <<u, w>> \notin before
                      \/ /\ path \in DOMAIN Stored /\ bucket'[path] = Stored[path]
                         /\ \A w \in Puts(path) : made'[w] = 0
    BY <1>4 DEF ObjectsAreOfUploads
  <2>1. CASE job[c].op = "uploadFile" /\ path = Path(c)
    <3>1. c \in Puts(path)
      BY <2>1 DEF FilesInv, Puts
    <3>2. bucket'[path] = job[c].value
      BY <1>5, <2>1
    <3> QED BY <1>2, <1>3, <3>1, <3>2
  <2>2. CASE ~(job[c].op = "uploadFile" /\ path = Path(c))
    <3>1. c \notin Puts(path)
      BY <2>2 DEF Puts
    <3>2. path \in DOMAIN bucket /\ bucket'[path] = bucket[path]
      BY <1>5, <2>2
    <3>3. \A u \in Puts(path) : made'[u] = made[u]
      BY <1>1, <1>2, <1>4, <3>1
    <3> QED BY <3>2, <3>3 DEF FilesInv, ObjectsAreOfUploads
  <2> QED BY <2>1, <2>2
<1>10. DownloadsAreFresh'
  <2> SUFFICES ASSUME NEW d \in DOMAIN job, job[d].op = "downloadFile"
               PROVE  /\ made'[d] > 0 => Fresh(d, Object(d))'
                      /\ answer[d] = "ok" => made'[d] > 0 /\ body'[d].rest = None
    BY DEF DownloadsAreFresh
  <2>1. CASE d # c
    <3>1. made'[d] = made[d] /\ body'[d] = body[d] /\ Object(d)' = Object(d)
      BY <1>1, <1>2, <1>5, <2>1 DEF FilesInv, Object
    <3>2. answer[d] = "ok" => made'[d] > 0 /\ body'[d].rest = None
      BY <3>1 DEF FilesInv, DownloadsAreFresh
    <3>3. ASSUME made[d] > 0, NEW object, object = Object(d)
          PROVE  Fresh(d, object)'
      <4>1. Fresh(d, object)
        BY <3>3 DEF FilesInv, DownloadsAreFresh
      <4>2. \A u \in DOMAIN job : step[u] # "idle" => step'[u] # "idle"
        BY <1>1, <1>2
      <4> QED BY <1>1, <3>3, <4>1, <4>2, FreshStays
    <3>4. made'[d] > 0 => Fresh(d, Object(d))'
      BY <3>1, <3>3 DEF Fresh
    <3> QED BY <3>2, <3>4
  <2>2. CASE d = c
    <3> DEFINE path == Path(c)
    <3>1. Object(c)' = bucket[path]
      <4>1. body'[c] = [read |-> None, rest |-> bucket[path]]
        BY <1>1, <1>5, <1>6, <2>2 DEF FilesInv
      <4>2. bucket[path] \in Seq(Chunk)
        BY <1>6, <2>2 DEF FilesInv
      <4> HIDE DEF path
      <4>3. <<>> \o bucket[path] = bucket[path]
        BY <4>2, ConcatEmptySeq
      <4> QED BY <4>1, <4>3 DEF Object, None
    <3>2. \A w : Overwrites(w, c)' => w \in Puts(path) /\ made[w] > 0
      BY <1>4, FieldsWanted DEF Overwrites, Puts, AnswersAreTrue, Credulous
    <3>3. answer[c] # "ok"
      BY <1>2
    <3>4. CASE \E u \in Puts(path) :
                  /\ made[u] > 0 /\ bucket[path] = job[u].value
                  /\ \A w \in Puts(path) : made[w] > 0 => <<u, w>> \notin before
      <4>1. PICK u \in Puts(path) :
                  /\ made[u] > 0 /\ bucket[path] = job[u].value
                  /\ \A w \in Puts(path) : made[w] > 0 => <<u, w>> \notin before
        BY <3>4
      <4>2. step'[u] # "idle"
        BY <1>1, <1>2, <1>4, <4>1
      <4>3. \A w \in Caller : Overwrites(w, c)' => <<u, w>> \notin before'
        BY <3>2, <4>1
      <4>4. u \in Puts(Path(c))' /\ bucket[path] = job'[u].value /\ <<c, u>> \notin before'
        BY <1>3, <1>4, <4>1
      <4>5. /\ u \in Puts(Path(c))' /\ step'[u] # "idle" /\ <<c, u>> \notin before'
            /\ Object(c)' = job'[u].value
            /\ \A w \in Caller : Overwrites(w, c)' => <<u, w>> \notin before'
        BY <3>1, <4>2, <4>3, <4>4
      <4>6. Fresh(c, Object(c))'
        BY <4>5 DEF Fresh
      <4> QED BY <2>2, <3>3, <4>6
    <3>5. CASE /\ path \in DOMAIN Stored /\ bucket[path] = Stored[path]
               /\ \A w \in Puts(path) : made[w] = 0
      <4>1. \A w : ~Overwrites(w, c)'
        BY <3>2, <3>5
      <4>2. Path(c)' \in DOMAIN Stored /\ Object(c)' = Stored[Path(c)']
        BY <1>4, <3>1, <3>5
      <4>3. Fresh(c, Object(c))'
        BY <4>1, <4>2 DEF Fresh
      <4> QED BY <2>2, <3>3, <4>3
    <3> QED BY <1>6, <2>2, <3>4, <3>5 DEF FilesInv, ObjectsAreOfUploads
  <2> QED BY <2>1, <2>2
<1>11. \A d, e \in DOMAIN job : <<d, e>> \in before' => step'[d] = "done" /\ step'[e] # "idle"
  BY <1>1, <1>2, <1>3 DEF FilesInv
<1>12. \A d \in DOMAIN job :
          step'[d] \in {"asked", "attempted"} /\ job[d].op = "uploadFile" => job[d].value # None
  BY <1>1, <1>2 DEF FilesInv
<1> QED BY <1>7, <1>8, <1>9, <1>10, <1>11, <1>12 DEF FilesInv

LEMMA AttemptKeepsFiles ==
    ASSUME CallsInv, AnswersAreTrue, FilesInv, NEW c \in Caller, Attempt(c)
    PROVE  FilesInv'
<1>1. /\ step[c] = "asked" /\ c \in DOMAIN job /\ answer[c] = "none" /\ DOMAIN job \subseteq Caller
      /\ step' = [step EXCEPT ![c] = "attempted"]
      /\ UNCHANGED <<job, answer, before>>
  BY OpType DEF Attempt, CallsInv, Accounted
<1>2. CASE ~Missing(c) /\ made' = [made EXCEPT ![c] = @ + 1] /\ Effect(c)
  BY <1>1, <1>2, EffectKeepsFiles
<1>3. CASE UNCHANGED <<made, body, services>>
  <2>1. UNCHANGED bucket /\ \A d \in DOMAIN job : Object(d)' = Object(d)
    BY <1>1, <1>3 DEF Object, services
  <2>2. /\ step'[c] = "attempted"
        /\ \A d \in DOMAIN job : d # c => step'[d] = step[d]
    BY <1>1 DEF CallsInv, TypeOK
  <2>3. job[c].op = "uploadFile" => job[c].value # None
    BY <1>1 DEF FilesInv
  <2>4. body' \in [Caller -> [read : Seq(Chunk), rest : Seq(Chunk)]]
    BY <1>3 DEF FilesInv
  <2> QED BY <1>1, <1>3, <2>1, <2>2, <2>3, <2>4, FilesStay
<1> QED BY <1>2, <1>3 DEF Attempt

LEMMA RetryKeepsFiles ==
    ASSUME CallsInv, FilesInv, NEW c \in Caller, Retry(c)
    PROVE  FilesInv'
<1>1. /\ step[c] = "attempted" /\ c \in DOMAIN job /\ answer[c] = "none" /\ DOMAIN job \subseteq Caller
      /\ step' = [step EXCEPT ![c] = "asked"]
      /\ UNCHANGED <<job, answer, body, bucket, made, before>>
  BY OpType DEF Retry, CallsInv, Accounted, services
<1>2. /\ step'[c] = "asked"
      /\ \A d \in DOMAIN job : d # c => step'[d] = step[d]
  BY <1>1 DEF CallsInv, TypeOK
<1>3. /\ job[c].op = "uploadFile" => job[c].value # None
      /\ body' \in [Caller -> [read : Seq(Chunk), rest : Seq(Chunk)]]
      /\ \A d \in DOMAIN job : Object(d)' = Object(d)
  BY <1>1 DEF FilesInv, Object
<1> QED BY <1>1, <1>2, <1>3, FilesStay

(* A caller that ends without having served a download it did not read. *)
LEMMA FinishedKeepsFiles ==
    ASSUME CallsInv, FilesInv, NEW c \in DOMAIN job, NEW a, Finished(c, a),
           step[c] \in {"attempted", "streaming"},
           a = "ok" /\ job[c].op = "downloadFile" => step[c] = "streaming" /\ body[c].rest = None,
           UNCHANGED <<job, body, bucket, made, before>>
    PROVE  FilesInv'
<1>1. /\ c \in Caller /\ DOMAIN job \subseteq Caller
      /\ step' = [step EXCEPT ![c] = "done"] /\ answer' = [answer EXCEPT ![c] = a]
  BY OpType DEF Finished, CallsInv
<1>2. /\ step'[c] = "done" /\ answer'[c] = a
      /\ \A d \in DOMAIN job : d # c => step'[d] = step[d] /\ answer'[d] = answer[d]
  BY <1>1 DEF CallsInv, TypeOK
<1>3. /\ body' \in [Caller -> [read : Seq(Chunk), rest : Seq(Chunk)]]
      /\ \A d \in DOMAIN job : Object(d)' = Object(d)
  BY DEF FilesInv, Object
<1>4. a = "ok" /\ job[c].op = "downloadFile" => made[c] > 0 /\ body'[c].rest = None
  BY <1>1 DEF CallsInv, Accounted
<1> QED BY <1>2, <1>3, <1>4, FilesStay

LEMMA ReceiveKeepsFiles ==
    ASSUME CallsInv, FilesInv, NEW c \in Caller, Receive(c)
    PROVE  FilesInv'
<1> DEFINE a == Reading(job[c].op, response[c])
<1>1. /\ step[c] = "attempted" /\ c \in DOMAIN job /\ answer[c] = "none" /\ DOMAIN job \subseteq Caller
      /\ UNCHANGED <<job, body, bucket, made, before>>
  BY OpType DEF Receive, CallsInv, Accounted, sdk, services
<1>2. CASE job[c].op = "downloadFile" /\ a = "ok"
  <2>1. step' = [step EXCEPT ![c] = "streaming"] /\ UNCHANGED answer
    BY <1>2 DEF Receive
  <2>2. /\ step'[c] = "streaming"
        /\ \A d \in DOMAIN job : d # c => step'[d] = step[d]
    BY <1>1, <2>1 DEF CallsInv, TypeOK
  <2>3. /\ body' \in [Caller -> [read : Seq(Chunk), rest : Seq(Chunk)]]
        /\ \A d \in DOMAIN job : Object(d)' = Object(d)
    BY <1>1 DEF FilesInv, Object
  <2> QED BY <1>1, <2>1, <2>2, <2>3, FilesStay
<1>3. CASE ~(job[c].op = "downloadFile" /\ a = "ok")
  <2>1. Finished(c, Told(c, a))
    BY <1>3 DEF Receive
  <2>2. Told(c, a) = "ok" => a = "ok"
    BY DEF Told
  <2> QED BY <1>1, <1>3, <2>1, <2>2, FinishedKeepsFiles
<1> QED BY <1>2, <1>3

LEMMA ReadChunkKeepsFiles ==
    ASSUME CallsInv, FilesInv, NEW c \in Caller, ReadChunk(c)
    PROVE  FilesInv'
<1> DEFINE a == body[c].read
           b == body[c].rest
           next == [read |-> Append(a, Head(b)), rest |-> Tail(b)]
<1>1. /\ step[c] = "streaming" /\ c \in DOMAIN job /\ answer[c] = "none" /\ DOMAIN job \subseteq Caller
      /\ UNCHANGED <<job, step, answer, bucket, made, before>>
      /\ b # <<>> /\ body' = [body EXCEPT ![c] = next]
  BY OpType DEF ReadChunk, CallsInv, Accounted, services, None
<1>2. a \in Seq(Chunk) /\ b \in Seq(Chunk)
  BY DEF FilesInv
<1>3. /\ Append(a, Head(b)) \in Seq(Chunk) /\ Tail(b) \in Seq(Chunk)
      /\ Append(a, Head(b)) \o Tail(b) = a \o b
  <2> HIDE DEF a, b, next
  <2> QED BY <1>1, <1>2, ChunkMoves
<1>4. next \in [read : Seq(Chunk), rest : Seq(Chunk)] /\ next.read \o next.rest = a \o b
  BY <1>3
<1>5. Object(c) = a \o b
  BY DEF Object
<1> HIDE DEF next
<1>6. /\ body' \in [Caller -> [read : Seq(Chunk), rest : Seq(Chunk)]]
      /\ body'[c] = next /\ \A d \in DOMAIN job : d # c => body'[d] = body[d]
  BY <1>1, <1>4 DEF FilesInv
<1>7. \A d \in DOMAIN job : Object(d)' = Object(d)
  <2>1. Object(c)' = next.read \o next.rest
    BY <1>6 DEF Object
  <2>2. \A d \in DOMAIN job : d # c => Object(d)' = Object(d)
    BY <1>6 DEF Object
  <2> QED BY <1>4, <1>5, <2>1, <2>2
<1> QED BY <1>1, <1>6, <1>7, FilesStay

LEMMA StepKeepsFiles ==
    CallsInv /\ AnswersAreTrue /\ FilesInv /\ [Next]_vars => FilesInv'
<1> SUFFICES ASSUME CallsInv, AnswersAreTrue, FilesInv, [Next]_vars
             PROVE  FilesInv'
  OBVIOUS
<1>1. ASSUME UNCHANGED <<job, step, answer, body, bucket, made, before>>
      PROVE  FilesInv'
  <2>1. /\ \A path : Puts(path)' = Puts(path)
        /\ \A d : Path(d)' = Path(d) /\ Object(d)' = Object(d)
    BY <1>1, PutsStay DEF Object
  <2>2. \A w, d : Overwrites(w, d)' = Overwrites(w, d)
    BY <1>1, <2>1 DEF Overwrites
  <2>3. \A d : Fresh(d, Object(d))' = Fresh(d, Object(d))
    BY <1>1, <2>1, <2>2 DEF Fresh
  <2>4. ObjectsAreOfUploads' /\ DownloadsAreFresh'
    BY <1>1, <2>1, <2>3 DEF FilesInv, ObjectsAreOfUploads, DownloadsAreFresh
  <2> QED BY <1>1, <2>4 DEF FilesInv
<1>2. CASE UNCHANGED vars
  BY <1>1, <1>2 DEF vars
<1>3. CASE Tick
  BY <1>1, <1>3 DEF Tick, sdk, services
<1>4. ASSUME NEW c \in Caller, Serve(c) \/ Break(c)
      PROVE  FilesInv'
  <2>1. /\ step[c] = "streaming" /\ c \in DOMAIN job
        /\ UNCHANGED <<job, body, bucket, made, before>>
        /\ (Finished(c, "ok") /\ body[c].rest = None) \/ Finished(c, "thrown")
    BY <1>4 DEF Serve, Break, CallsInv, Accounted, sdk, services
  <2> QED BY <2>1, FinishedKeepsFiles
<1>5. ASSUME NEW c \in Caller,
             \/ Begin(c) \/ Attempt(c) \/ Retry(c) \/ Receive(c) \/ ReadChunk(c)
      PROVE  FilesInv'
  BY <1>5, BeginKeepsFiles, AttemptKeepsFiles, RetryKeepsFiles, ReceiveKeepsFiles, ReadChunkKeepsFiles
<1> QED BY <1>2, <1>3, <1>4, <1>5 DEF Next

(* Producer, clients and FileService: the queue takes a message once, how a
   call and its attempts ended tells what the service did, and the bucket and
   the downloads hold what some upload put that none has overwritten.       *)
THEOREM CallsAreAccounted == Spec => []IntegrationsInv
<1>1. CallsInv /\ AnswersAreTrue /\ FilesInv => IntegrationsInv
  BY DEF IntegrationsInv
<1> QED BY <1>1, CallsAreKept, InitFiles, StepKeepsFiles, PTL DEF Spec

(* FileService, UploadService and S3Client: a download that is answered is
   whole, and not of an upload that another had overwritten before it began.*)
THEOREM DownloadsServeFreshFiles == Spec => []FreshFiles
<1>1. IntegrationsInv => FreshFiles
  <2> SUFFICES ASSUME FilesInv, CallsInv, NEW d \in DOMAIN job,
                      job[d].op = "downloadFile", answer[d] = "ok"
               PROVE  Fresh(d, body[d].read)
    BY DEF FreshFiles, IntegrationsInv
  <2>1. Fresh(d, Object(d)) /\ body[d].rest = <<>>
    BY DEF FilesInv, DownloadsAreFresh, None
  <2>2. body[d].read \o <<>> = body[d].read
    BY OpType, ConcatEmptySeq DEF FilesInv, CallsInv
  <2> QED BY <2>1, <2>2 DEF Object
<1> QED BY <1>1, CallsAreAccounted, PTL
=============================================================================
