------------------------- MODULE EventsQueueProofs -------------------------
(***************************************************************************)
(* Proofs about EventsQueue for every set of messages and of instances and *)
(* every value of the bounds: type correctness, NoMessageLost,             *)
(* NoOvertaking and the implementation of MessageDelivery.                 *)
(***************************************************************************)
EXTENDS EventsQueue, TLAPS

(***************************************************************************)
(* Types.                                                                  *)
(***************************************************************************)

(* The updates the actions make to a recovery keep it a recovery. *)
LEMMA RecoveryTypes ==
    ASSUME NEW r \in Recovery
    PROVE  /\ r.msg \in Message
           /\ r.inserted \in BOOLEAN
           /\ [r EXCEPT !.fresh = FALSE] \in Recovery
           /\ [r EXCEPT !.step = "deleting", !.inserted = TRUE] \in Recovery
  BY DEF Recovery

(* Abort, the throw out of the loop, keeps the loop, the recoveries and the
   error counter well typed.                                               *)
LEMMA AbortTypes ==
    ASSUME TypeOK, NEW c \in Consumer, NEW m \in Message, NEW d \in BOOLEAN,
           Abort(c, m, d)
    PROVE  /\ batch' \in [Consumer -> SUBSET Message]
           /\ current' \in [Consumer -> Message \cup {None}]
           /\ pc' \in [Consumer -> PCs]
           /\ recoveries' \subseteq Recovery
           /\ errors' \in [Consumer -> 0..MaxErrors]
           /\ UNCHANGED <<fresh, inserted, disabled, lastSwitch>>
  <1> USE QueueAssumption
  <1>1. [consumer |-> c, msg |-> m, fresh |-> fresh[c], inserted |-> d,
         step |-> "saving"] \in Recovery
    BY DEF Recovery, TypeOK
  <1>2. recoveries' \subseteq Recovery
    BY <1>1 DEF Abort, TypeOK
  <1>3. errors' \in [Consumer -> 0..MaxErrors] /\ pc' \in [Consumer -> PCs]
    BY DEF Abort, IncreaseError, TypeOK, PCs
  <1>4. QED
    BY <1>2, <1>3 DEF Abort, TypeOK

(* One step keeps the types. The loop works on a message it was given. *)
LEMMA TypeStep == TypeOK /\ CurrentIsNext /\ [Next]_vars => TypeOK'
  <1> SUFFICES ASSUME TypeOK, CurrentIsNext, [Next]_vars PROVE TypeOK'
    OBVIOUS
  <1> USE QueueAssumption
  <1>1. \A c \in Consumer : pc[c] \in Working => current[c] \in Message
    BY DEF CurrentIsNext, IsNext, TypeOK
  <1>2. ASSUME NEW m \in Message, Dispatch(m) PROVE TypeOK'
    BY <1>2 DEF Dispatch, Enqueue, Fault, NoFault, resultVars, loopVars, instanceVars,
                TypeOK, PCs
  <1>3. ASSUME NEW c \in Consumer, Receive(c) PROVE TypeOK'
    BY <1>3 DEF Receive, NoFault, resultVars, instanceVars, TypeOK, PCs
  <1>4. ASSUME NEW c \in Consumer, Begin(c) PROVE TypeOK'
    BY <1>4 DEF Begin, NoFault, queueVars, instanceVars, TypeOK, PCs
  <1>5. ASSUME NEW c \in Consumer, Handle(c) PROVE TypeOK'
    BY <1>1, <1>5 DEF Handle, NoFault, queueVars, TypeOK, PCs, Working
  <1>6. ASSUME NEW c \in Consumer, Reject(c) PROVE TypeOK'
    BY <1>6 DEF Reject, NoFault, queueVars, resultVars, instanceVars, TypeOK, PCs
  <1>7. ASSUME NEW c \in Consumer, Store(c) PROVE TypeOK'
    BY <1>1, <1>7 DEF Store, InsertAnswered, NoFault, queueVars, instanceVars, TypeOK, PCs,
                      Working
  <1>8. ASSUME NEW c \in Consumer, StoreFails(c) PROVE TypeOK'
    BY <1>1, <1>8 DEF StoreFails, InsertThrown, Done, Fault, NoFault, queueVars, TypeOK, PCs,
                      Working
  <1>9. ASSUME NEW c \in Consumer, Delete(c) PROVE TypeOK'
    BY <1>9 DEF Delete, DeleteAnswered, Removed, Done, NoFault, resultVars, TypeOK, PCs
  <1>10. ASSUME NEW c \in Consumer, DeleteFails(c) PROVE TypeOK'
    <2>1. Abort(c, current[c], inserted[c]) /\ current[c] \in Message /\ inserted[c] \in BOOLEAN
      BY <1>1, <1>10 DEF DeleteFails, TypeOK, Working
    <2>2. QED
      BY <1>10, <2>1, AbortTypes DEF DeleteFails, DeleteThrown, Removed, Fault, NoFault,
                                     resultVars, TypeOK
  <1>11. ASSUME NEW c \in Consumer, FinishBatch(c) PROVE TypeOK'
    BY <1>11 DEF FinishBatch, NoFault, queueVars, resultVars, instanceVars, TypeOK, PCs
  <1>12. ASSUME NEW c \in Consumer, Refuse(c) PROVE TypeOK'
    <2>1. PICK m \in Message : Abort(c, m, FALSE)
      BY <1>12 DEF Refuse, TypeOK
    <2>2. QED
      BY <1>12, <2>1, AbortTypes DEF Refuse, NoFault, queueVars, resultVars, TypeOK
  <1>13. ASSUME NEW c \in Consumer, ReceiveError(c) PROVE TypeOK'
    BY <1>13 DEF ReceiveError, IncreaseError, Fault, queueVars, resultVars, TypeOK, PCs
  <1>14. ASSUME NEW c \in Consumer, Disable(c) PROVE TypeOK'
    BY <1>14 DEF Disable, Fault, queueVars, resultVars, loopVars, TypeOK
  <1>15. ASSUME NEW c \in Consumer, Restart(c) PROVE TypeOK'
    BY <1>15 DEF Restart, Fault, NoFault, queueVars, resultVars, TypeOK, PCs
  <1>16. ASSUME NEW r \in recoveries, RecoverStore(r) PROVE TypeOK'
    <2>1. r \in Recovery
      BY DEF TypeOK
    <2>2. stored' \subseteq Message /\ recoveries' \subseteq Recovery
      BY <1>16, <2>1, RecoveryTypes DEF RecoverStore, InsertAnswered, TypeOK
    <2>3. QED
      BY <1>16, <2>2 DEF RecoverStore, InsertAnswered, NoFault, queueVars, loopVars,
                         instanceVars, TypeOK
  <1>17. ASSUME NEW r \in recoveries, RecoverStoreFails(r) PROVE TypeOK'
    <2>1. r.msg \in Message
      BY RecoveryTypes DEF TypeOK
    <2>2. stored' \subseteq Message /\ recoveries' \subseteq Recovery
      BY <1>17, <2>1 DEF RecoverStoreFails, InsertThrown, TypeOK
    <2>3. faults' \in 0..MaxFaults
      BY <1>17 DEF RecoverStoreFails, InsertThrown, Fault, NoFault, TypeOK
    <2>4. QED
      BY <1>17, <2>2, <2>3 DEF RecoverStoreFails, queueVars, loopVars, instanceVars, TypeOK
  <1>18. ASSUME NEW r \in recoveries, RecoverDelete(r) PROVE TypeOK'
    <2>1. queued' \subseteq Message /\ inflight' \subseteq Message /\ faults' \in 0..MaxFaults
      BY <1>18 DEF RecoverDelete, DeleteAnswered, DeleteThrown, Removed, Fault, NoFault, TypeOK
    <2>2. QED
      BY <1>18, <2>1 DEF RecoverDelete, resultVars, loopVars, instanceVars, TypeOK
  <1>19. CASE Expire
    <2>1. recoveries' \subseteq Recovery
      <3>1. SUFFICES ASSUME NEW r \in recoveries PROVE [r EXCEPT !.fresh = FALSE] \in Recovery
        BY <1>19 DEF Expire
      <3>2. QED
        BY RecoveryTypes DEF TypeOK
    <2>2. faults' \in 0..MaxFaults
      BY <1>19 DEF Expire, Fault, NoFault, TypeOK
    <2>3. QED
      BY <1>19, <2>1, <2>2 DEF Expire, resultVars, instanceVars, TypeOK
  <1>20. CASE UNCHANGED vars
    BY <1>20 DEF vars, queueVars, resultVars, loopVars, instanceVars, TypeOK
  <1>21. QED
    BY <1>2, <1>3, <1>4, <1>5, <1>6, <1>7, <1>8, <1>9, <1>10, <1>11, <1>12, <1>13, <1>14,
       <1>15, <1>16, <1>17, <1>18, <1>19, <1>20 DEF Next, Loop, Recover

(***************************************************************************)
(* The inductive invariant.                                                *)
(***************************************************************************)

(* One step keeps FlowInv.  What happens where:
     - Dispatch gives a new message the greatest rank, so that it comes
       before nothing that is in a batch or was tried;
     - Receive takes a prefix of the queue, and what is sent and no longer
       queued is settled, hence tried or kept (NoMessageLost);
     - Begin picks the earliest message of the batch, so that everything
       sent before it was tried or kept (BatchStartsAtHead);
     - Delete and RecoverDelete remove only what is settled
       (DeletingIsSettled); everything else leaves queue and ranks alone.  *)
LEMMA FlowStep == QueueInv /\ [Next]_vars => FlowInv'
  <1> SUFFICES ASSUME QueueInv, [Next]_vars PROVE FlowInv'
    OBVIOUS
  <1> USE QueueAssumption
      DEF QueueInv, FlowInv, TypeOK, CurrentIsNext, IsNext, RanksInOrder,
          DeletingIsSettled, BatchStartsAtHead, NoMessageLost, NoOvertaking,
          Sent, Settled, Working
  <1>1. ASSUME NEW m \in Message, Dispatch(m) PROVE FlowInv'
    BY <1>1 DEF Dispatch, Enqueue, resultVars, loopVars
  <1>2. ASSUME NEW c \in Consumer, Receive(c) PROVE FlowInv'
    <2>1. PICK S \in SUBSET queued :
             Prefix(S) /\ batch' = [batch EXCEPT ![c] = S]
      BY <1>2 DEF Receive
    <2>2. \A m \in S, n \in Sent : pos[n] < pos[m] /\ n \notin S => n \in Settled
      BY <2>1 DEF Prefix
    <2>3. BatchStartsAtHead'
      BY <1>2, <2>1, <2>2 DEF Receive, resultVars
    <2>4. QED
      BY <1>2, <2>1, <2>3 DEF Receive, resultVars
  <1>3. ASSUME NEW c \in Consumer, Begin(c) PROVE FlowInv'
    <2>1. PICK m \in batch[c] :
             /\ IsNext(c, m)
             /\ current' = [current EXCEPT ![c] = m]
             /\ attempted' = attempted \cup {m}
      BY <1>3 DEF Begin
    <2>2. \A n \in Sent : pos[n] < pos[m] => n \in attempted \cup stored
      BY <2>1
    <2>3. NoOvertaking'
      BY <1>3, <2>1, <2>2 DEF Begin, queueVars
    <2>4. QED
      BY <1>3, <2>1, <2>3 DEF Begin, queueVars
  <1>4. ASSUME NEW c \in Consumer, Handle(c) PROVE FlowInv'
    BY <1>4 DEF Handle, queueVars
  <1>5. ASSUME NEW c \in Consumer, Reject(c) PROVE FlowInv'
    BY <1>5 DEF Reject, queueVars, resultVars
  <1>6. ASSUME NEW c \in Consumer, Store(c) PROVE FlowInv'
    BY <1>6 DEF Store, InsertAnswered, queueVars
  <1>7. ASSUME NEW c \in Consumer, StoreFails(c) PROVE FlowInv'
    BY <1>7 DEF StoreFails, InsertThrown, Done, queueVars
  <1>8. ASSUME NEW c \in Consumer, Delete(c) PROVE FlowInv'
    <2>1. current[c] \in Settled
      BY <1>8 DEF Delete
    <2>2. NoMessageLost'
      BY <1>8, <2>1 DEF Delete, DeleteAnswered, Removed, resultVars
    <2>3. QED
      BY <1>8, <2>2 DEF Delete, DeleteAnswered, Removed, Done, resultVars
  <1>9. ASSUME NEW c \in Consumer, DeleteFails(c) PROVE FlowInv'
    BY <1>9 DEF DeleteFails, DeleteThrown, Removed, Abort, IncreaseError, resultVars
  <1>10. ASSUME NEW c \in Consumer, FinishBatch(c) PROVE FlowInv'
    BY <1>10 DEF FinishBatch, queueVars, resultVars
  <1>11. ASSUME NEW c \in Consumer, Refuse(c) PROVE FlowInv'
    BY <1>11 DEF Refuse, Abort, IncreaseError, queueVars, resultVars
  <1>12. ASSUME NEW c \in Consumer, ReceiveError(c) PROVE FlowInv'
    BY <1>12 DEF ReceiveError, IncreaseError, queueVars, resultVars
  <1>13. ASSUME NEW c \in Consumer, Disable(c) PROVE FlowInv'
    BY <1>13 DEF Disable, queueVars, resultVars, loopVars
  <1>14. ASSUME NEW c \in Consumer, Restart(c) PROVE FlowInv'
    BY <1>14 DEF Restart, queueVars, resultVars
  <1>15. ASSUME NEW r \in recoveries, RecoverStore(r) PROVE FlowInv'
    <2>1. r.msg \in Sent /\ stored' = stored \cup {r.msg}
      BY <1>15 DEF RecoverStore, InsertAnswered
    <2>2. ASSUME NEW q \in recoveries' PROVE
            /\ q.msg \in Sent
            /\ q.step = "deleting" => q.msg \in stored'
      <3>1. r \in Recovery
        OBVIOUS
      <3>2. CASE q \in recoveries
        BY <2>1, <3>2
      <3>3. CASE q = [r EXCEPT !.step = "deleting", !.inserted = TRUE]
        BY <2>1, <3>1, <3>3 DEF Recovery
      <3>4. QED
        BY <1>15, <3>2, <3>3 DEF RecoverStore
    <2>3. RanksInOrder' /\ DeletingIsSettled'
      BY <1>15, <2>1, <2>2 DEF RecoverStore, queueVars, loopVars
    <2>4. QED
      BY <1>15, <2>1, <2>3 DEF RecoverStore, queueVars, loopVars
  <1>16. ASSUME NEW r \in recoveries, RecoverStoreFails(r) PROVE FlowInv'
    BY <1>16 DEF RecoverStoreFails, InsertThrown, queueVars, loopVars
  <1>17. ASSUME NEW r \in recoveries, RecoverDelete(r) PROVE FlowInv'
    BY <1>17 DEF RecoverDelete, DeleteAnswered, DeleteThrown, Removed, resultVars, loopVars
  <1>18. CASE Expire
    <2>1. ASSUME NEW q \in recoveries' PROVE
            /\ q.msg \in Sent
            /\ q.step = "deleting" => q.msg \in stored
      <3>1. PICK r \in recoveries : q = [r EXCEPT !.fresh = FALSE]
        BY <1>18 DEF Expire
      <3>2. r \in Recovery
        OBVIOUS
      <3>3. q.msg = r.msg /\ q.step = r.step
        BY <3>1, <3>2 DEF Recovery
      <3>4. QED
        BY <3>3
    <2>2. RanksInOrder' /\ DeletingIsSettled'
      BY <1>18, <2>1 DEF Expire, resultVars
    <2>3. QED
      BY <1>18, <2>2 DEF Expire, resultVars
  <1>19. CASE UNCHANGED vars
    BY <1>19 DEF vars, queueVars, resultVars, loopVars
  <1>20. QED
    BY <1>1, <1>2, <1>3, <1>4, <1>5, <1>6, <1>7, <1>8, <1>9, <1>10, <1>11, <1>12, <1>13,
       <1>14, <1>15, <1>16, <1>17, <1>18, <1>19 DEF Next, Loop, Recover

(* One step keeps EarlierAreGone.  A batch is a prefix of the queue, so what
   is certain to be handled and earlier than something in it is in it, too,
   or gone for good; and the loop leaves such a message behind only by
   deleting it, or gives the whole batch up.                               *)
LEMMA EarlierStep == QueueInv /\ [Next]_vars => EarlierAreGone'
  <1> SUFFICES ASSUME QueueInv, [Next]_vars PROVE EarlierAreGone'
    OBVIOUS
  <1> USE QueueAssumption
      DEF QueueInv, FlowInv, TypeOK, CurrentIsNext, IsNext, RanksInOrder, EarlierAreGone,
          Certain, Sent, Working
  <1>1. ASSUME NEW m \in Message, Dispatch(m) PROVE EarlierAreGone'
    <2>1. CASE Enqueue(m)
      <3>1. m \notin Sent /\ pos'[m] = sends + 1 /\ \A n \in Message : n # m => pos'[n] = pos[n]
        BY <1>1, <2>1 DEF Dispatch, Enqueue
      <3>2. \A c \in Consumer : lastSwitch[c] # None => lastSwitch[c] \in Sent
        OBVIOUS
      <3>3. queued' = queued \cup {m} /\ UNCHANGED <<loopVars, instanceVars>>
        BY <1>1, <2>1 DEF Dispatch, Enqueue
      <3>4. QED
        BY <3>1, <3>2, <3>3 DEF loopVars, instanceVars
    <2>2. CASE UNCHANGED <<pos, queued>>
      BY <1>1, <2>2 DEF Dispatch, loopVars, instanceVars
    <2>3. QED
      BY <1>1, <2>1, <2>2 DEF Dispatch
  <1>2. ASSUME NEW c \in Consumer, Receive(c) PROVE EarlierAreGone'
    <2>1. PICK S \in SUBSET queued :
             Prefix(S) /\ batch' = [batch EXCEPT ![c] = S]
      BY <1>2 DEF Receive
    <2>2. \A m \in S, n \in queued : pos[n] < pos[m] => n \in S
      BY <2>1 DEF Prefix
    <2>3. QED
      BY <1>2, <2>1, <2>2 DEF Receive, instanceVars
  <1>3. ASSUME NEW c \in Consumer, Begin(c) PROVE EarlierAreGone'
    BY <1>3 DEF Begin, queueVars, instanceVars
  <1>4. ASSUME NEW c \in Consumer, Handle(c) PROVE EarlierAreGone'
    <2>1. CASE current[c] \notin Switch
      BY <1>4, <2>1 DEF Handle, queueVars
    <2>2. CASE current[c] \in Switch
      <3>1. /\ current[c] \in batch[c] /\ current[c] \in Sent
            /\ \A n \in batch[c] : pos[current[c]] <= pos[n]
        BY <1>4 DEF Handle
      <3>2. \A n \in Certain \cap queued : pos[current[c]] <= pos[n]
        BY <3>1
      <3>3. lastSwitch' = [lastSwitch EXCEPT ![c] = current[c]]
        BY <1>4, <2>2 DEF Handle
      <3>4. QED
        BY <1>4, <3>1, <3>2, <3>3 DEF Handle, queueVars
    <2>3. QED
      BY <2>1, <2>2
  <1>5. ASSUME NEW c \in Consumer, Reject(c) PROVE EarlierAreGone'
    BY <1>5 DEF Reject, queueVars, resultVars, instanceVars
  <1>6. ASSUME NEW c \in Consumer, Store(c) PROVE EarlierAreGone'
    BY <1>6 DEF Store, queueVars, instanceVars
  <1>7. ASSUME NEW c \in Consumer, StoreFails(c) PROVE EarlierAreGone'
    BY <1>7 DEF StoreFails, Done, queueVars
  <1>8. ASSUME NEW c \in Consumer, Delete(c) PROVE EarlierAreGone'
    BY <1>8 DEF Delete, DeleteAnswered, Removed, Done
  <1>9. ASSUME NEW c \in Consumer, DeleteFails(c) PROVE EarlierAreGone'
    BY <1>9 DEF DeleteFails, DeleteThrown, Removed, Abort, IncreaseError
  <1>10. ASSUME NEW c \in Consumer, FinishBatch(c) PROVE EarlierAreGone'
    BY <1>10 DEF FinishBatch, queueVars, instanceVars
  <1>11. ASSUME NEW c \in Consumer, Refuse(c) PROVE EarlierAreGone'
    BY <1>11 DEF Refuse, Abort, IncreaseError, queueVars
  <1>12. ASSUME NEW c \in Consumer, ReceiveError(c) PROVE EarlierAreGone'
    BY <1>12 DEF ReceiveError, IncreaseError, queueVars
  <1>13. ASSUME NEW c \in Consumer, Disable(c) PROVE EarlierAreGone'
    BY <1>13 DEF Disable, queueVars, loopVars
  <1>14. ASSUME NEW c \in Consumer, Restart(c) PROVE EarlierAreGone'
    BY <1>14 DEF Restart, queueVars
  <1>15. ASSUME NEW r \in recoveries, Recover(r) PROVE EarlierAreGone'
    <2>1. queued' \subseteq queued /\ UNCHANGED <<pos, loopVars, instanceVars>>
      BY <1>15 DEF Recover, RecoverStore, RecoverStoreFails, RecoverDelete, DeleteAnswered,
                   DeleteThrown, Removed, queueVars
    <2>2. QED
      BY <2>1 DEF loopVars, instanceVars
  <1>16. CASE Expire
    BY <1>16 DEF Expire, instanceVars
  <1>17. CASE UNCHANGED vars
    BY <1>17 DEF vars, queueVars, loopVars, instanceVars
  <1>18. QED
    BY <1>1, <1>2, <1>3, <1>4, <1>5, <1>6, <1>7, <1>8, <1>9, <1>10, <1>11, <1>12, <1>13,
       <1>14, <1>15, <1>16, <1>17 DEF Next, Loop

(* A step that fails nothing keeps OneAtATime: neither does a batch expire
   that is worked on, nor is an instance stopped, nor does a call throw.   *)
LEMMA AloneStep == QueueInv /\ [Next]_vars => OneAtATime'
  <1> SUFFICES ASSUME QueueInv, [Next]_vars, faults' = 0 PROVE OneAtATime'
    BY DEF OneAtATime
  <1> USE QueueAssumption
      DEF QueueInv, FlowInv, TypeOK, CurrentIsNext, IsNext, RanksInOrder, OneAtATime,
          Settled, Sent, Working
  <1>0. ASSUME Fault PROVE FALSE
    BY <1>0 DEF Fault
  <1>1. ASSUME NEW m \in Message, Dispatch(m) PROVE OneAtATime'
    <2>1. Enqueue(m) /\ NoFault
      BY <1>0, <1>1 DEF Dispatch
    <2>2. m \notin Settled
      BY <1>1 DEF Dispatch
    <2>3. QED
      BY <1>1, <2>1, <2>2 DEF Dispatch, Enqueue, NoFault, resultVars, loopVars, instanceVars
  <1>2. ASSUME NEW c \in Consumer, Receive(c) PROVE OneAtATime'
    <2>1. faults = 0 /\ \A d \in Consumer : batch[d] = {}
      BY <1>2 DEF Receive, NoFault
    <2>2. \A d \in Consumer : pc[d] \notin {"executing", "storing", "deleting"}
      BY <2>1
    <2>3. PICK S \in SUBSET queued : batch' = [batch EXCEPT ![c] = S] /\ inflight' = S
      BY <1>2 DEF Receive
    <2>4. QED
      BY <1>2, <2>1, <2>2, <2>3 DEF Receive, NoFault, resultVars, instanceVars
  <1>3. ASSUME NEW c \in Consumer, Begin(c) PROVE OneAtATime'
    <2>1. PICK m \in batch[c] : current' = [current EXCEPT ![c] = m]
      BY <1>3 DEF Begin
    <2>2. faults = 0 /\ pc[c] = "next"
      BY <1>3 DEF Begin, NoFault
    <2>3. m \notin Settled
      BY <2>1, <2>2
    <2>4. QED
      BY <1>3, <2>1, <2>2, <2>3 DEF Begin, NoFault, queueVars, instanceVars
  <1>4. ASSUME NEW c \in Consumer, Handle(c) PROVE OneAtATime'
    <2>1. faults = 0 /\ pc[c] = "executing" /\ pc' = [pc EXCEPT ![c] = "deleting"]
      BY <1>4 DEF Handle, NoFault
    <2>2. \A d \in Consumer : d # c => pc[d] # "executing"
      BY <2>1
    <2>3. QED
      BY <1>4, <2>1, <2>2 DEF Handle, NoFault, queueVars
  <1>5. ASSUME NEW c \in Consumer, Reject(c) PROVE OneAtATime'
    BY <1>5 DEF Reject, NoFault, queueVars, resultVars, instanceVars
  <1>6. ASSUME NEW c \in Consumer, Store(c) PROVE OneAtATime'
    <2>1. faults = 0 /\ pc[c] = "storing" /\ pc' = [pc EXCEPT ![c] = "deleting"]
      BY <1>6 DEF Store, InsertAnswered, NoFault
    <2>2. \A d \in Consumer : d # c => pc[d] # "executing"
      BY <2>1
    <2>3. QED
      BY <1>6, <2>1, <2>2 DEF Store, InsertAnswered, NoFault, queueVars, instanceVars
  <1>7. ASSUME NEW c \in Consumer, StoreFails(c) PROVE FALSE
    BY <1>0, <1>7 DEF StoreFails, InsertThrown, NoFault
  <1>8. ASSUME NEW c \in Consumer, Delete(c) PROVE OneAtATime'
    <2>1. /\ faults = 0 /\ pc[c] = "deleting" /\ pc' = [pc EXCEPT ![c] = "next"]
          /\ batch' = [batch EXCEPT ![c] = @ \ {current[c]}]
          /\ queued' = queued \ {current[c]} /\ inflight' = inflight \ {current[c]}
          /\ current' = [current EXCEPT ![c] = None]
      BY <1>8 DEF Delete, DeleteAnswered, Removed, Done, NoFault
    <2>2. \A d \in Consumer : d # c => pc[d] \notin Working /\ batch[d] = {}
      BY <2>1
    <2>3. QED
      BY <1>8, <2>1, <2>2 DEF Delete, Done, resultVars
  <1>9. ASSUME NEW c \in Consumer, DeleteFails(c) PROVE FALSE
    BY <1>0, <1>9 DEF DeleteFails, DeleteThrown, NoFault
  <1>10. ASSUME NEW c \in Consumer, FinishBatch(c) PROVE OneAtATime'
    BY <1>10 DEF FinishBatch, NoFault, queueVars, resultVars, instanceVars
  <1>11. ASSUME NEW c \in Consumer, Refuse(c) PROVE FALSE
    BY <1>11 DEF Refuse, NoFault
  <1>12. ASSUME NEW c \in Consumer, ReceiveError(c) \/ Disable(c) PROVE FALSE
    BY <1>0, <1>12 DEF ReceiveError, Disable
  <1>13. ASSUME NEW c \in Consumer, Restart(c) PROVE FALSE
    BY <1>0, <1>13 DEF Restart, NoFault
  <1>14. ASSUME NEW r \in recoveries, Recover(r) PROVE FALSE
    <2>1. faults = 0
      BY <1>0, <1>14 DEF Recover, RecoverStore, RecoverStoreFails, RecoverDelete, InsertAnswered,
           InsertThrown, DeleteAnswered, DeleteThrown, NoFault
    <2>2. QED
      BY <2>1
  <1>15. CASE Expire
    <2>1. faults = 0 /\ ~Busy
      BY <1>0, <1>15 DEF Expire, NoFault
    <2>2. \A c \in Consumer : batch[c] = {}
      BY <2>1 DEF Busy
    <2>3. QED
      BY <1>15, <2>1, <2>2 DEF Expire, resultVars, instanceVars
  <1>16. CASE UNCHANGED vars
    BY <1>16 DEF vars, queueVars, resultVars, loopVars, instanceVars
  <1>17. QED
    BY <1>1, <1>2, <1>3, <1>4, <1>5, <1>6, <1>7, <1>8, <1>9, <1>10, <1>11, <1>12, <1>13,
       <1>14, <1>15, <1>16 DEF Next, Loop

(* QueueInv is an inductive invariant of the specification. *)
THEOREM QueueInvariant == Spec => []QueueInv
<1>1. Init => QueueInv
  BY QueueAssumption DEF Init, QueueInv, FlowInv, TypeOK, PCs, CurrentIsNext, RanksInOrder,
     DeletingIsSettled, BatchStartsAtHead, NoMessageLost, NoOvertaking, Sent, Settled, Working,
     EarlierAreGone, OneAtATime
<1>2. QueueInv /\ [Next]_vars => QueueInv'
  BY TypeStep, FlowStep, EarlierStep, AloneStep DEF QueueInv, FlowInv
<1>3. QED
  BY <1>1, <1>2, PTL DEF Spec

(* The state of queue, consumers and instances is always well typed. *)
THEOREM TypeCorrect == Spec => []TypeOK
<1>1. QueueInv => TypeOK
  BY DEF QueueInv
<1>2. QED
  BY <1>1, QueueInvariant, PTL

(* A message the queue accepted is in the queue, handled or kept as
   unprocessed, for any number of messages, instances and faults: the two
   places that delete a message (handleMessage, saveUnprocessedMessage)
   never run ahead of its outcome.                                         *)
THEOREM MessagesAreNotLost == Spec => []NoMessageLost
<1>1. QueueInv => NoMessageLost
  BY DEF QueueInv, FlowInv
<1>2. QED
  BY <1>1, QueueInvariant, PTL

(* No message is tried before every message sent before it was tried or kept,
   for any number of instances, faults and redeliveries: the batch is handled
   in order and given up at the first throw.                               *)
THEOREM MessagesDoNotOvertake == Spec => []NoOvertaking
<1>1. QueueInv => NoOvertaking
  BY DEF QueueInv, FlowInv
<1>2. QED
  BY <1>1, QueueInvariant, PTL

(* Without a fault no handler runs for a message that was handled or kept
   before, although any number of instances poll the same queue.           *)
THEOREM NothingIsRepeated == Spec => []NoRepeatWithoutFaults
<1>1. QueueInv => NoRepeatWithoutFaults
  BY DEF QueueInv, OneAtATime, NoRepeatWithoutFaults
<1>2. QED
  BY <1>1, QueueInvariant, PTL

(* No instance goes back to an older switch, whatever is redelivered to it:
   a switch is deleted before a later one begins.                          *)
THEOREM SwitchesNeverGoBack == Spec => SwitchesInOrder
<1> DEFINE InOrder == \A c \in Consumer :
                         lastSwitch[c] # None /\ lastSwitch'[c] # None
                         => pos[lastSwitch[c]] <= pos[lastSwitch'[c]]
<1>1. QueueInv /\ [Next]_vars => [InOrder]_vars
  <2> SUFFICES ASSUME QueueInv, Next, NEW c \in Consumer,
                      lastSwitch[c] # None, lastSwitch'[c] # None
               PROVE  pos[lastSwitch[c]] <= pos[lastSwitch'[c]]
    OBVIOUS
  <2> USE QueueAssumption DEF QueueInv, TypeOK
  <2>1. lastSwitch[c] \in Message /\ pos[lastSwitch[c]] \in Nat
    OBVIOUS
  <2>2. CASE lastSwitch'[c] = lastSwitch[c]
    BY <2>1, <2>2
  <2>3. CASE Handle(c) /\ current[c] \in Switch
    <3>1. current[c] \in batch[c] /\ current[c] \in Certain
      BY <2>3 DEF Handle, FlowInv, CurrentIsNext, IsNext, Working, Certain
    <3>2. lastSwitch'[c] = current[c]
      BY <2>3 DEF Handle
    <3>3. QED
      BY <3>1, <3>2 DEF EarlierAreGone
  <2>4. ASSUME NEW d \in Consumer, Handle(d), d # c \/ current[d] \notin Switch
        PROVE  lastSwitch'[c] = lastSwitch[c]
    BY <2>4 DEF Handle
  <2>5. ASSUME NEW d \in Consumer, Restart(d)
        PROVE  lastSwitch'[c] = lastSwitch[c]
    BY <2>5 DEF Restart
  <2>6. ASSUME NEW d \in Consumer,
               \/ Receive(d) \/ Begin(d) \/ Reject(d) \/ Store(d) \/ StoreFails(d)
               \/ Delete(d) \/ DeleteFails(d) \/ FinishBatch(d) \/ Refuse(d)
               \/ ReceiveError(d) \/ Disable(d)
        PROVE  lastSwitch'[c] = lastSwitch[c]
    BY <2>6 DEF Receive, Begin, Reject, Store, StoreFails, Delete, DeleteFails, FinishBatch,
                Refuse, ReceiveError, Disable, Done, Abort, instanceVars
  <2>7. ASSUME Expire \/ (\E m \in Message : Dispatch(m)) \/ \E r \in recoveries : Recover(r)
        PROVE  lastSwitch'[c] = lastSwitch[c]
    BY <2>7 DEF Expire, Dispatch, Recover, RecoverStore, RecoverStoreFails, RecoverDelete,
                instanceVars
  <2>8. QED
    BY <2>2, <2>3, <2>4, <2>5, <2>6, <2>7 DEF Next, Loop
<1>2. QED
  BY <1>1, QueueInvariant, PTL DEF Spec, SwitchesInOrder

(***************************************************************************)
(* Refinement.                                                             *)
(***************************************************************************)

(* Dispatching a message either sends it or changes nothing of the contract. *)
LEMMA DispatchSends ==
    ASSUME QueueInv, NEW m \in Message, Dispatch(m)
    PROVE  Delivery!Next \/ UNCHANGED Delivery!vars
  <1> USE DEF Dispatch, resultVars, Delivery!vars
  <1>1. CASE Enqueue(m)
    <2>1. sends \in Nat /\ pos \in [Message -> Nat] /\ m \notin Sent
      BY DEF QueueInv, FlowInv, TypeOK, RanksInOrder
    <2>2. Sent' = Sent \cup {m}
      BY <1>1, <2>1 DEF Enqueue, Sent
    <2>3. Delivery!Send(m)
      BY <1>1, <2>1, <2>2 DEF Enqueue, Delivery!Send
    <2>4. QED
      BY <2>3 DEF Delivery!Next
  <1>2. CASE UNCHANGED <<pos, queued>>
    BY <1>2 DEF Sent
  <1>3. QED
    BY <1>1, <1>2

(* A step that handles, keeps or removes at most one message is allowed by
   the contract when the message was sent and, to be removed, is settled.  *)
LEMMA ContractStep ==
    ASSUME QueueInv, UNCHANGED pos, NEW m \in Sent,
           \/ UNCHANGED <<queued, handled, stored>>
           \/ handled' = handled \cup {m} /\ UNCHANGED <<queued, stored>>
           \/ stored' = stored \cup {m} /\ UNCHANGED <<queued, handled>>
           \/ queued' = queued \ {m} /\ m \in Settled /\ UNCHANGED <<handled, stored>>
    PROVE  Delivery!Next \/ UNCHANGED Delivery!vars
  <1>1. Sent' = Sent /\ m \in Message
    BY DEF Sent
  <1>2. CASE UNCHANGED <<queued, handled, stored>>
    BY <1>1, <1>2 DEF Delivery!vars
  <1>3. CASE handled' = handled \cup {m} /\ UNCHANGED <<queued, stored>>
    BY <1>1, <1>3 DEF Delivery!Next, Delivery!Handle
  <1>4. CASE stored' = stored \cup {m} /\ UNCHANGED <<queued, handled>>
    BY <1>1, <1>4 DEF Delivery!Next, Delivery!Keep
  <1>5. CASE queued' = queued \ {m} /\ m \in Settled /\ UNCHANGED <<handled, stored>>
    <2>1. CASE m \in queued
      BY <1>1, <1>5, <2>1 DEF Delivery!Next, Delivery!Remove, Delivery!Settled, Settled
    <2>2. CASE m \notin queued
      BY <1>1, <1>5, <2>2 DEF Delivery!vars
    <2>3. QED
      BY <2>1, <2>2
  <1>6. QED
    BY <1>2, <1>3, <1>4, <1>5

(* Every step of the queue and its consumers is a step of the contract, or
   changes nothing the contract speaks of.                                 *)
LEMMA DeliveryStep ==
    QueueInv /\ [Next]_vars => Delivery!Next \/ UNCHANGED Delivery!vars
  <1> SUFFICES ASSUME QueueInv, [Next]_vars
               PROVE Delivery!Next \/ UNCHANGED Delivery!vars
    OBVIOUS
  <1>1. \A c \in Consumer : pc[c] \in Working => current[c] \in Sent
    BY DEF QueueInv, FlowInv, CurrentIsNext, IsNext, RanksInOrder
  <1>2. \A c \in Consumer : pc[c] = "deleting" => current[c] \in Settled
    BY DEF QueueInv, FlowInv, DeletingIsSettled
  <1>3. \A r \in recoveries : r.msg \in Sent /\ (r.step = "deleting" => r.msg \in Settled)
    BY DEF QueueInv, FlowInv, RanksInOrder, DeletingIsSettled, Settled
  <1>4. CASE UNCHANGED <<pos, queued, handled, stored>>
    BY <1>4 DEF Delivery!vars, Sent
  <1>5. ASSUME NEW m \in Message, Dispatch(m)
        PROVE Delivery!Next \/ UNCHANGED Delivery!vars
    BY <1>5, DispatchSends
  <1>6. ASSUME NEW c \in Consumer, Handle(c)
        PROVE Delivery!Next \/ UNCHANGED Delivery!vars
    BY <1>1, <1>6, ContractStep DEF Handle, queueVars, Working
  <1>7. ASSUME NEW c \in Consumer, Store(c) \/ StoreFails(c)
        PROVE Delivery!Next \/ UNCHANGED Delivery!vars
    BY <1>1, <1>7, ContractStep DEF Store, StoreFails, InsertAnswered, InsertThrown, queueVars,
                                    Working
  <1>8. ASSUME NEW c \in Consumer, Delete(c) \/ DeleteFails(c)
        PROVE Delivery!Next \/ UNCHANGED Delivery!vars
    BY <1>1, <1>2, <1>8, ContractStep DEF Delete, DeleteFails, DeleteAnswered, DeleteThrown,
                                          Removed, resultVars, Working
  <1>9. ASSUME NEW r \in recoveries, Recover(r)
        PROVE Delivery!Next \/ UNCHANGED Delivery!vars
    BY <1>3, <1>9, ContractStep DEF Recover, RecoverStore, RecoverStoreFails, RecoverDelete,
          InsertAnswered, InsertThrown, DeleteAnswered, DeleteThrown, Removed, queueVars,
          resultVars
  <1>10. ASSUME NEW c \in Consumer,
                \/ Receive(c) \/ Begin(c) \/ Reject(c) \/ FinishBatch(c) \/ Refuse(c)
                \/ ReceiveError(c) \/ Disable(c) \/ Restart(c)
         PROVE UNCHANGED <<pos, queued, handled, stored>>
    BY <1>10 DEF Receive, Begin, Reject, FinishBatch, Refuse, ReceiveError, Disable, Restart,
                 queueVars, resultVars
  <1>11. CASE Expire \/ UNCHANGED vars
    BY <1>4, <1>11 DEF Expire, vars, queueVars, resultVars
  <1>12. QED
    BY <1>4, <1>5, <1>6, <1>7, <1>8, <1>9, <1>10, <1>11 DEF Next, Loop

(* The events queue with its consumers implements at-least-once delivery, the
   safety part of MessageDelivery, whatever fails, expires or crashes.     *)
THEOREM QueueImplementsDelivery == Spec => DeliverySafety
<1>1. Init => Delivery!Init
  BY DEF Init, Delivery!Init, Sent
<1>2. QueueInv /\ [Next]_vars => [Delivery!Next]_Delivery!vars
  BY DeliveryStep
<1>3. QED
  BY <1>1, <1>2, QueueInvariant, PTL DEF Spec, DeliverySafety, Delivery!Safety
=============================================================================
