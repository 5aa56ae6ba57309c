---------------------------- MODULE EventsQueue ----------------------------
(***************************************************************************)
(* The events queue: EventsQueueProducer.dispatch puts messages in an SQS  *)
(* FIFO queue, every instance of the application polls it with an          *)
(* EventsQueueConsumer, and a message leaves the queue when the code       *)
(* deletes it (the library is told shouldDeleteMessages: false).           *)
(*                                                                         *)
(* Queue, polling library and Mongo driver are external and are modelled   *)
(* by what the code relies on: a batch is a prefix of the visible queue,   *)
(* nothing of the message group is delivered while a message of it is in   *)
(* flight, a delivery older than the visibility timeout can no longer be   *)
(* deleted, insertOne writes _id into the object it is given.              *)
(***************************************************************************)
EXTENDS Naturals, FiniteSets

CONSTANTS
    Message,      \* the messages that may be dispatched
    Consumer,     \* the application instances, one consumer each
    Invalid,      \* messages the handler always rejects: no body, bad schema, unknown event
    Domain,       \* DOMAIN_EVENT messages: the handler awaits webhookService.pullHook
    Switch,       \* DISABLE_LOGIN / DISABLE_ALL_ROUTES messages with the right hash
    BatchSize,    \* batchSize of the consumer options (10 in the code)
    MaxErrors,    \* consecutive library errors that make the consumer throw (10 in the code)
    MaxFaults,    \* bound: failed calls, early timeouts, crashes and shutdowns in a behaviour
    None          \* no message

ASSUME QueueAssumption ==
    /\ Invalid \subseteq Message
    /\ Domain \subseteq Message
    /\ Switch \subseteq Message
    /\ Switch \cap (Invalid \cup Domain) = {}
    /\ Invalid \cap Domain = {}
    /\ None \notin Message
    /\ BatchSize \in Nat \ {0}
    /\ MaxErrors \in Nat \ {0}
    /\ MaxFaults \in Nat

VARIABLES
    dispatched,   \* messages dispatch() was called for
    pos,          \* pos[m]: rank of m in the FIFO queue, 0 when it never got there
    sends,        \* number of messages the queue accepted
    queued,       \* messages in the queue, in flight ones included
    inflight,     \* messages delivered and not yet visible again
    handled,      \* messages whose handler completed at least once
    attempted,    \* messages whose handler was started at least once
    stored,       \* messages with a document in unprocessedMessages
    pc,           \* pc[c]: where the consumer loop of c stands
    batch,        \* batch[c]: messages of the batch c has not finished
    current,      \* current[c]: the message handleMessage works on
    fresh,        \* fresh[c]: the visibility timeout of the batch has not passed
    inserted,     \* inserted[c]: the current message object is already a stored document
    recoveries,   \* handleProcessingError calls that have not returned
    errors,       \* errors[c]: errorsCount
    disabled,     \* disabled[c]: the consumer was disabled
    lastSwitch,   \* lastSwitch[c]: the last switch message the instance c applied
    faults        \* faults so far

queueVars == <<dispatched, pos, sends, queued, inflight>>
resultVars == <<handled, attempted, stored>>
loopVars == <<pc, batch, current, fresh, inserted>>
instanceVars == <<errors, disabled, lastSwitch>>
vars == <<queueVars, resultVars, loopVars, recoveries, instanceVars, faults>>

Sent == {m \in Message : pos[m] > 0}
Settled == handled \cup stored

PCs == {"polling", "next", "executing", "storing", "deleting", "stopped"}

Recovery == [consumer : Consumer, msg : Message, fresh : BOOLEAN,
             inserted : BOOLEAN, step : {"saving", "deleting"}]

TypeOK ==
    /\ dispatched \subseteq Message
    /\ pos \in [Message -> Nat]
    /\ sends \in Nat
    /\ queued \subseteq Message
    /\ inflight \subseteq Message
    /\ handled \subseteq Message
    /\ attempted \subseteq Message
    /\ stored \subseteq Message
    /\ pc \in [Consumer -> PCs]
    /\ batch \in [Consumer -> SUBSET Message]
    /\ current \in [Consumer -> Message \cup {None}]
    /\ fresh \in [Consumer -> BOOLEAN]
    /\ inserted \in [Consumer -> BOOLEAN]
    /\ recoveries \subseteq Recovery
    /\ errors \in [Consumer -> 0..MaxErrors]
    /\ disabled \in [Consumer -> BOOLEAN]
    /\ lastSwitch \in [Consumer -> Switch \cup {None}]
    /\ faults \in 0..MaxFaults

Init ==
    /\ dispatched = {}
    /\ pos = [m \in Message |-> 0]
    /\ sends = 0
    /\ queued = {}
    /\ inflight = {}
    /\ handled = {}
    /\ attempted = {}
    /\ stored = {}
    /\ pc = [c \in Consumer |-> "polling"]
    /\ batch = [c \in Consumer |-> {}]
    /\ current = [c \in Consumer |-> None]
    /\ fresh = [c \in Consumer |-> FALSE]
    /\ inserted = [c \in Consumer |-> FALSE]
    /\ recoveries = {}
    /\ errors = [c \in Consumer |-> 0]
    /\ disabled = [c \in Consumer |-> FALSE]
    /\ lastSwitch = [c \in Consumer |-> None]
    /\ faults = 0

(***************************************************************************)
(* The environment may misbehave MaxFaults times.                          *)
(***************************************************************************)
Fault == faults < MaxFaults /\ faults' = faults + 1
NoFault == UNCHANGED faults

(***************************************************************************)
(* The producer. A failed send is captured and dispatch returns null: the  *)
(* message is never sent again. The failure may also be the answer's only. *)
(***************************************************************************)
Enqueue(m) ==
    /\ pos' = [pos EXCEPT ![m] = sends + 1]
    /\ sends' = sends + 1
    /\ queued' = queued \cup {m}

Dispatch(m) ==
    /\ m \notin dispatched
    /\ dispatched' = dispatched \cup {m}
    /\ \/ Enqueue(m) /\ NoFault
       \/ Enqueue(m) /\ Fault
       \/ UNCHANGED <<pos, sends, queued>> /\ Fault
    /\ UNCHANGED <<inflight, resultVars, loopVars, recoveries, instanceVars>>

(***************************************************************************)
(* The queue delivers to a polling consumer a prefix of at most BatchSize  *)
(* messages, none while a message of the (single) group is in flight.      *)
(***************************************************************************)
Prefix(S) ==
    /\ S # {}
    /\ Cardinality(S) <= BatchSize
    /\ \A m \in S, n \in queued \ S : pos[m] < pos[n]

Receive(c) ==
    /\ pc[c] = "polling"
    /\ inflight = {}
    /\ \E S \in SUBSET queued :
          /\ Prefix(S)
          /\ batch' = [batch EXCEPT ![c] = S]
          /\ inflight' = S
    /\ fresh' = [fresh EXCEPT ![c] = TRUE]
    /\ pc' = [pc EXCEPT ![c] = "next"]
    /\ UNCHANGED <<dispatched, pos, sends, queued, resultVars, current, inserted,
                   recoveries, instanceVars>>
    /\ NoFault

(* The visibility timeout of the delivered batch passes. While the batch is
   still being worked on this is a fault: the work took more than 20 s.    *)
Busy == \/ \E c \in Consumer : fresh[c] /\ batch[c] # {}
        \/ \E r \in recoveries : r.fresh

Expire ==
    /\ inflight # {}
    /\ inflight' = {}
    /\ fresh' = [c \in Consumer |-> FALSE]
    /\ recoveries' = {[r EXCEPT !.fresh = FALSE] : r \in recoveries}
    /\ IF Busy THEN Fault ELSE NoFault
    /\ UNCHANGED <<dispatched, pos, sends, queued, resultVars, pc, batch, current,
                   inserted, instanceVars>>

(***************************************************************************)
(* Deleting message m with a receipt that is fresh or not. A stale receipt *)
(* of a message still queued is refused; a failed call may have deleted.   *)
(***************************************************************************)
Removed(m) ==
    /\ queued' = queued \ {m}
    /\ inflight' = inflight \ {m}

DeleteAnswered(m, isFresh) ==
    /\ isFresh \/ m \notin queued
    /\ Removed(m)
    /\ NoFault

DeleteThrown(m, isFresh) ==
    \/ Removed(m) /\ isFresh /\ Fault
    \/ UNCHANGED <<queued, inflight>> /\ Fault
    \/ UNCHANGED <<queued, inflight>> /\ ~isFresh /\ m \in queued /\ NoFault

(***************************************************************************)
(* insertOne into unprocessedMessages. It fails for an object that already *)
(* is a document (duplicate _id); a failed call may have written.          *)
(***************************************************************************)
InsertAnswered(m, isDocument) ==
    /\ ~isDocument
    /\ stored' = stored \cup {m}
    /\ NoFault

InsertThrown(m, isDocument) ==
    \/ stored' = stored /\ Fault
    \/ stored' = stored \cup {m} /\ ~isDocument /\ Fault
    \/ stored' = stored /\ isDocument /\ NoFault

(***************************************************************************)
(* handleMessageBatch and handleMessage: one message after the other.      *)
(***************************************************************************)
(* Mutant of IsNext: the batch is handled in any order. *)
IsAny(c, m) == m \in batch[c]

IsNext(c, m) == m \in batch[c] /\ \A n \in batch[c] : pos[m] <= pos[n]

(* handleMessage of the next message, the consumer not being disabled. *)
Begin(c) ==
    /\ pc[c] = "next"
    /\ ~disabled[c]
    /\ \E m \in batch[c] :
          /\ IsNext(c, m)
          /\ current' = [current EXCEPT ![c] = m]
          /\ attempted' = attempted \cup {m}
    /\ inserted' = [inserted EXCEPT ![c] = FALSE]
    /\ pc' = [pc EXCEPT ![c] = "executing"]
    /\ UNCHANGED <<queueVars, handled, stored, batch, fresh, recoveries, instanceVars>>
    /\ NoFault

(* execute validates the message and handleBySchema returns. *)
Handle(c) ==
    /\ pc[c] = "executing"
    /\ current[c] \notin Invalid
    /\ handled' = handled \cup {current[c]}
    /\ lastSwitch' = IF current[c] \in Switch
                     THEN [lastSwitch EXCEPT ![c] = current[c]] ELSE lastSwitch
    /\ pc' = [pc EXCEPT ![c] = "deleting"]
    /\ UNCHANGED <<queueVars, attempted, stored, batch, current, fresh, inserted,
                   recoveries, errors, disabled>>
    /\ NoFault

(* Mutant of Reject: execute logs the error and answers false. *)
RejectAndSkip(c) ==
    /\ pc[c] = "executing"
    /\ current[c] \in Invalid \cup Domain
    /\ batch' = [batch EXCEPT ![c] = @ \ {current[c]}]
    /\ current' = [current EXCEPT ![c] = None]
    /\ pc' = [pc EXCEPT ![c] = "next"]
    /\ UNCHANGED <<queueVars, resultVars, fresh, inserted, recoveries, instanceVars>>
    /\ NoFault

(* execute's try block throws: validation, an unknown event, or pullHook. *)
Reject(c) ==
    /\ pc[c] = "executing"
    /\ current[c] \in Invalid \cup Domain
    /\ pc' = [pc EXCEPT ![c] = "storing"]
    /\ UNCHANGED <<queueVars, resultVars, batch, current, fresh, inserted, recoveries,
                   instanceVars>>
    /\ NoFault

(* handleMessage returned: the error counter restarts, the loop goes on. *)
Done(c) ==
    /\ errors' = [errors EXCEPT ![c] = 0]
    /\ batch' = [batch EXCEPT ![c] = @ \ {current[c]}]
    /\ current' = [current EXCEPT ![c] = None]
    /\ pc' = [pc EXCEPT ![c] = "next"]
    /\ UNCHANGED <<fresh, disabled, lastSwitch>>

(* execute's catch block stores the message and answers true. *)
Store(c) ==
    /\ pc[c] = "storing"
    /\ InsertAnswered(current[c], inserted[c])
    /\ inserted' = [inserted EXCEPT ![c] = TRUE]
    /\ pc' = [pc EXCEPT ![c] = "deleting"]
    /\ UNCHANGED <<queueVars, handled, attempted, batch, current, fresh, recoveries,
                   instanceVars>>

(* Mutant of StoreFails: the catch of the insert answers true as well. *)
StoreFailsAsDone(c) ==
    /\ pc[c] = "storing"
    /\ InsertThrown(current[c], inserted[c])
    /\ pc' = [pc EXCEPT ![c] = "deleting"]
    /\ UNCHANGED <<queueVars, handled, attempted, batch, current, fresh, inserted,
                   recoveries, instanceVars>>

(* The insert fails, execute answers false: the message is not deleted and
   handleMessage returns as if all were well.                              *)
StoreFails(c) ==
    /\ pc[c] = "storing"
    /\ InsertThrown(current[c], inserted[c])
    /\ Done(c)
    /\ UNCHANGED <<queueVars, handled, attempted, inserted, recoveries>>

(* Mutant of Delete: a handled message is left to the library, which was told
   not to delete.                                                          *)
LeaveToLibrary(c) ==
    /\ pc[c] = "deleting"
    /\ Done(c)
    /\ NoFault
    /\ UNCHANGED <<queueVars, resultVars, inserted, recoveries>>

Delete(c) ==
    /\ pc[c] = "deleting"
    /\ DeleteAnswered(current[c], fresh[c])
    /\ Done(c)
    /\ UNCHANGED <<dispatched, pos, sends, resultVars, inserted, recoveries>>

FinishBatch(c) ==
    /\ pc[c] = "next"
    /\ batch[c] = {}
    /\ pc' = [pc EXCEPT ![c] = "polling"]
    /\ UNCHANGED <<queueVars, resultVars, batch, current, fresh, inserted, recoveries,
                   instanceVars>>
    /\ NoFault

(***************************************************************************)
(* A throw leaves the loop; the library reports it either with the         *)
(* processing_error event (handleProcessingError starts) or with the error *)
(* event (handleError). At MaxErrors the listener throws and polling stops.*)
(***************************************************************************)
IncreaseError(c) ==
    /\ errors' = [errors EXCEPT ![c] = IF @ < MaxErrors THEN @ + 1 ELSE @]
    /\ pc' = [pc EXCEPT ![c] = IF errors[c] + 1 < MaxErrors THEN "polling" ELSE "stopped"]

Abort(c, m, isDocument) ==
    /\ batch' = [batch EXCEPT ![c] = {}]
    /\ current' = [current EXCEPT ![c] = None]
    /\ \/ /\ recoveries' = recoveries \cup
                {[consumer |-> c, msg |-> m, fresh |-> fresh[c],
                  inserted |-> isDocument, step |-> "saving"]}
          /\ pc' = [pc EXCEPT ![c] = "polling"]
          /\ UNCHANGED errors
       \/ IncreaseError(c) /\ UNCHANGED recoveries
    /\ UNCHANGED <<fresh, inserted, disabled, lastSwitch>>

(* handleMessage of the next message, the consumer being disabled. *)
Refuse(c) ==
    /\ pc[c] = "next"
    /\ disabled[c]
    /\ \E m \in batch[c] : IsNext(c, m) /\ Abort(c, m, FALSE)
    /\ UNCHANGED <<queueVars, resultVars>>
    /\ NoFault

(* Mutant of DeleteFails: the failed deletion is swallowed, the loop goes on. *)
DeleteFailsSilently(c) ==
    /\ pc[c] = "deleting"
    /\ DeleteThrown(current[c], fresh[c])
    /\ Done(c)
    /\ UNCHANGED <<dispatched, pos, sends, resultVars, inserted, recoveries>>

DeleteFails(c) ==
    /\ pc[c] = "deleting"
    /\ DeleteThrown(current[c], fresh[c])
    /\ Abort(c, current[c], inserted[c])
    /\ UNCHANGED <<dispatched, pos, sends, resultVars>>

(* The library could not receive: an error event between two batches. *)
ReceiveError(c) ==
    /\ pc[c] = "polling"
    /\ IncreaseError(c)
    /\ Fault
    /\ UNCHANGED <<queueVars, resultVars, batch, current, fresh, inserted, recoveries,
                   disabled, lastSwitch>>

(***************************************************************************)
(* handleProcessingError: nobody awaits it, the loop polls meanwhile.      *)
(***************************************************************************)
RecoverStore(r) ==
    /\ r.step = "saving"
    /\ InsertAnswered(r.msg, r.inserted)
    /\ recoveries' = (recoveries \ {r}) \cup
          {[r EXCEPT !.step = "deleting", !.inserted = TRUE]}
    /\ UNCHANGED <<queueVars, handled, attempted, loopVars, instanceVars>>

RecoverStoreFails(r) ==
    /\ r.step = "saving"
    /\ InsertThrown(r.msg, r.inserted)
    /\ recoveries' = recoveries \ {r}
    /\ UNCHANGED <<queueVars, handled, attempted, loopVars, instanceVars>>

RecoverDelete(r) ==
    /\ r.step = "deleting"
    /\ DeleteAnswered(r.msg, r.fresh) \/ DeleteThrown(r.msg, r.fresh)
    /\ recoveries' = recoveries \ {r}
    /\ UNCHANGED <<dispatched, pos, sends, resultVars, loopVars, instanceVars>>

(***************************************************************************)
(* The instance: shutdown disables the consumer, a crash or an exit loses  *)
(* everything in memory; enable() has no caller.                           *)
(***************************************************************************)
Disable(c) ==
    /\ ~disabled[c]
    /\ disabled' = [disabled EXCEPT ![c] = TRUE]
    /\ Fault
    /\ UNCHANGED <<queueVars, resultVars, loopVars, recoveries, errors, lastSwitch>>

Restart(c) ==
    /\ IF disabled[c] \/ pc[c] = "stopped" THEN NoFault ELSE Fault
    /\ pc' = [pc EXCEPT ![c] = "polling"]
    /\ batch' = [batch EXCEPT ![c] = {}]
    /\ current' = [current EXCEPT ![c] = None]
    /\ fresh' = [fresh EXCEPT ![c] = FALSE]
    /\ inserted' = [inserted EXCEPT ![c] = FALSE]
    /\ recoveries' = {r \in recoveries : r.consumer # c}
    /\ errors' = [errors EXCEPT ![c] = 0]
    /\ disabled' = [disabled EXCEPT ![c] = FALSE]
    /\ lastSwitch' = [lastSwitch EXCEPT ![c] = None]
    /\ UNCHANGED <<queueVars, resultVars>>

(***************************************************************************)
(* The specification.                                                      *)
(***************************************************************************)
Loop(c) ==
    \/ Receive(c) \/ Begin(c) \/ Handle(c) \/ Reject(c) \/ Store(c) \/ StoreFails(c)
    \/ Delete(c) \/ DeleteFails(c) \/ FinishBatch(c) \/ Refuse(c)

Recover(r) == RecoverStore(r) \/ RecoverStoreFails(r) \/ RecoverDelete(r)

Next ==
    \/ \E m \in Message : Dispatch(m)
    \/ \E c \in Consumer : Loop(c) \/ ReceiveError(c) \/ Disable(c) \/ Restart(c)
    \/ \E r \in recoveries : Recover(r)
    \/ Expire

Spec == Init /\ [][Next]_vars

(* The polling loop and the pending promises run, the timeout passes, and
   an instance that was told to stop or that stopped polling is restarted. *)
Fairness ==
    /\ \A c \in Consumer : WF_vars(Loop(c))
    /\ \A c \in Consumer : WF_vars((disabled[c] \/ pc[c] = "stopped") /\ Restart(c))
    /\ WF_vars(\E r \in recoveries : Recover(r))
    /\ WF_vars(Expire)

FairSpec == Spec /\ Fairness

(***************************************************************************)
(* Properties.                                                             *)
(***************************************************************************)

(* No message is lost: a message the queue accepted and that is no longer in
   it was handled, or is kept in unprocessedMessages. AbstractConsumer deletes
   in two places and in each only after one of the two happened, whatever
   fails, expires or crashes in between.                                   *)
NoMessageLost == Sent \ queued \subseteq Settled

(* No message overtakes another: when the handler was started for a message,
   every message sent before it was tried too or is kept as unprocessed.
   The loop is sequential and gives the batch up at the first throw.       *)
NoOvertaking ==
    \A m \in attempted : \A n \in Sent :
        pos[n] < pos[m] => n \in attempted \cup stored

(* An instance never goes back to an older switch: the DISABLE_LOGIN and
   DISABLE_ALL_ROUTES commands an instance applies come in the order they
   were sent, redeliveries included.                                       *)
SwitchesInOrder ==
    [][\A c \in Consumer :
          lastSwitch[c] # None /\ lastSwitch'[c] # None
          => pos[lastSwitch[c]] <= pos[lastSwitch'[c]]]_vars

(* Without a fault nothing is done twice: a message whose handler runs was
   neither handled nor kept before. Two instances poll the same queue.     *)
NoRepeatWithoutFaults ==
    faults = 0 => \A c \in Consumer :
                      pc[c] = "executing" => current[c] \notin Settled

(* Every message the queue accepted leaves it in the end, when the faults are
   finitely many: nothing is redelivered for ever.                         *)
EventuallyDrained == \A m \in Message : m \in queued ~> m \notin queued

(* The queue and its consumers implement at-least-once delivery. *)
Delivery == INSTANCE MessageDelivery WITH
    sent <- Sent, pending <- queued, handled <- handled, stored <- stored

DeliverySafety == Delivery!Safety
DeliverySpec == Delivery!Spec


(***************************************************************************)
(* The inductive invariant behind NoMessageLost and NoOvertaking.          *)
(***************************************************************************)
Working == {"executing", "storing", "deleting"}

(* The loop works on the earliest message of what is left of its batch. *)
CurrentIsNext ==
    \A c \in Consumer :
        pc[c] \in Working => IsNext(c, current[c]) /\ current[c] \in attempted

(* Ranks are given once and in order, and everything in play was sent. *)
RanksInOrder ==
    /\ \A m \in Message : pos[m] <= sends
    /\ Sent \subseteq dispatched
    /\ queued \cup attempted \cup stored \subseteq Sent
    /\ \A c \in Consumer : batch[c] \subseteq Sent
    /\ \A r \in recoveries : r.msg \in Sent

(* Whatever is about to be deleted is settled. *)
DeletingIsSettled ==
    /\ \A c \in Consumer : pc[c] = "deleting" => current[c] \in Settled
    /\ \A r \in recoveries : r.step = "deleting" => r.msg \in stored

(* What was sent before a message of a batch and is not in the batch was
   tried or kept before the batch was delivered.                           *)
BatchStartsAtHead ==
    \A c \in Consumer : \A m \in batch[c], n \in Sent :
        pos[n] < pos[m] /\ n \notin batch[c] => n \in attempted \cup stored

(* The inductive invariant: each part needs the others to be preserved. *)
FlowInv ==
    /\ CurrentIsNext
    /\ RanksInOrder
    /\ handled \subseteq attempted
    /\ DeletingIsSettled
    /\ BatchStartsAtHead
    /\ NoMessageLost
    /\ NoOvertaking

(* A message that is always handled is deleted before a later one begins: it
   is not even in the queue any more once it is in no batch that has a later
   one, and no instance gets it again that has applied a later switch.     *)
Certain == Message \ (Invalid \cup Domain)

EarlierAreGone ==
    \A c \in Consumer :
        /\ pc[c] = "storing" => current[c] \notin Certain
        /\ \A m \in batch[c], n \in Certain \cap queued : pos[n] < pos[m] => n \in batch[c]
        /\ lastSwitch[c] # None =>
              /\ lastSwitch[c] \in Sent
              /\ \A n \in Certain \cap (queued \cup batch[c]) : pos[lastSwitch[c]] <= pos[n]

(* While nothing has failed the instances work one at a time, on messages in
   flight; what is settled and still queued is the message about to be
   deleted, by its only holder.                                            *)
OneAtATime ==
    faults = 0 =>
        /\ recoveries = {}
        /\ \A c \in Consumer :
              /\ ~disabled[c] /\ pc[c] # "stopped"
              /\ batch[c] # {} => fresh[c]
              /\ batch[c] \subseteq inflight \cap queued
              /\ pc[c] \in {"executing", "storing"} => ~inserted[c]
              /\ pc[c] = "executing" => current[c] \notin Settled
              /\ \A d \in Consumer : d # c => batch[c] = {} \/ batch[d] = {}
        /\ \A m \in queued \cap Settled :
              \E c \in Consumer : pc[c] = "deleting" /\ current[c] = m

(* The invariant the theorems rest on: what is in flight, being deleted or
   recovered is in order, so that nothing is lost, overtakes or repeats.   *)
QueueInv == TypeOK /\ FlowInv /\ EarlierAreGone /\ OneAtATime
=============================================================================
