----------------------------- MODULE AwsClients -----------------------------
(***************************************************************************)
(* What the clients of Cognito, SNS, SQS and S3 make of a service's        *)
(* response.  Each operation sends one command and insists on something:   *)
(* a field of the response, a successful status, a confirmation, a marker, *)
(* or on nothing, for a list.  Commands that only compute, and the         *)
(* parameters of the others, are left out.                                 *)
(***************************************************************************)
EXTENDS Integers

CognitoClient ==
    [listUserPools |-> "list", createUserPool |-> "field", deleteUserPool |-> "status",
     createClient |-> "field", deleteClient |-> "status", createUser |-> "field",
     getUser |-> "field", deleteUser |-> "status", userSignUp |-> "confirmed",
     confirmUserSignUp |-> "status"]

SnsClient ==
    [listTopics |-> "list", createTopic |-> "field", deleteTopic |-> "status",
     subscribeTopic |-> "field", unsubscribeTopic |-> "status", publishMessage |-> "field"]

SqsClient ==
    [listQueues |-> "list", createQueue |-> "field", deleteQueue |-> "status",
     sendMessage |-> "field", deleteMessage |-> "status"]

S3Client ==
    [listBuckets |-> "list", createBucket |-> "field", deleteBucket |-> "status",
     putBucketNotification |-> "status", uploadFile |-> "field", downloadFile |-> "field",
     deleteFile |-> "marker"]

Op == DOMAIN CognitoClient \cup DOMAIN SnsClient \cup DOMAIN SqsClient \cup DOMAIN S3Client

Wants == [op \in Op |->
             CASE op \in DOMAIN CognitoClient -> CognitoClient[op]
               [] op \in DOMAIN SnsClient     -> SnsClient[op]
               [] op \in DOMAIN SqsClient     -> SqsClient[op]
               [] op \in DOMAIN S3Client      -> S3Client[op]]

(* Operations that ask too much of a success, and fail after it: a sign-up
   that waits for its confirmation, the deletion of a file that keeps no
   versions.                                                               *)
Demanding == {op \in Op : Wants[op] \in {"confirmed", "marker"}}

(* How often the SDK sends a command that gets no response, or a busy one. *)
maxAttempts(op) == IF op \in DOMAIN SqsClient \cup DOMAIN SnsClient THEN 2 ELSE 3

(***************************************************************************)
(* The end of an attempt.  The service did what it was asked and answered  *)
(* in full, without the confirmation or the marker the client looks for,   *)
(* or in vain ("lost"); or it did nothing: it refused, it was busy, or     *)
(* something in between answered with an empty success ("blank").          *)
(***************************************************************************)
Done(op) == {"full", "lost"} \cup IF op \in Demanding THEN {"bare"} ELSE {}

Undone == {"refused", "busy", "blank"}

Retried == {"lost", "busy"}

(* Mutant of Reading: the field is not looked at. *)
ReadingUnchecked(op, response) ==
    CASE response = "full" \/ (response = "blank" /\ Wants[op] \in {"status", "field"}) -> "ok"
      [] response = "blank" /\ Wants[op] = "list" -> "empty"
      [] OTHER                                    -> "thrown"

(* Who looks at nothing but the status takes an empty success for a success:
   the SDK throws for every status the clients compare it with.            *)
Reading(op, response) ==
    CASE response = "full" \/ (response = "blank" /\ Wants[op] = "status") -> "ok"
      [] response = "blank" /\ Wants[op] = "list" -> "empty"
      [] OTHER                                    -> "thrown"
=============================================================================
