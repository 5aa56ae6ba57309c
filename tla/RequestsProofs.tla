--------------------------- MODULE RequestsProofs ---------------------------
(***************************************************************************)
(* Proofs about the throttlers, for any number of clients and requests,    *)
(* any configured throttlers and any limits.                               *)
(***************************************************************************)
EXTENDS Requests, FiniteSetTheorems, SequenceTheorems, TLAPS

(* Sets of requests are finite, so that their cardinalities compare. *)
LEMMA RequestsFinite ==
    ASSUME NEW S \in SUBSET Request
    PROVE  IsFiniteSet(S) /\ Cardinality(S) \in Nat
<1>1. IsFiniteSet(Request)
  BY CallsAssumption, FS_Interval DEF Request
<1>2. IsFiniteSet(S)
  BY <1>1, FS_Subset
<1> QED BY <1>2, FS_CardinalityType

(* A smaller set of requests has no more of them. *)
LEMMA RequestsCount ==
    ASSUME NEW S \in SUBSET Request, NEW T \in SUBSET S
    PROVE  Cardinality(T) <= Cardinality(S)
<1>1. IsFiniteSet(S)
  BY RequestsFinite
<1> QED BY <1>1, FS_Subset

(* The throttlers of an endpoint are a sequence of throttlers. *)
LEMMA ThrottlersType ==
    ASSUME NEW e \in Endpoint
    PROVE  Throttlers(e) \in Seq(Throttler)
<1>1. GlobalThrottlers \in Seq(Throttler)
  BY LimitAssumption DEF Throttler
<1>2. CustomThrottlers(e) \in Seq(Throttler)
  <2>1. "login" \in Throttler
    BY DEF Throttler
  <2>2. <<"login">> \in Seq(Throttler) /\ <<>> \in Seq(Throttler)
    BY <2>1
  <2> QED BY <2>2 DEF CustomThrottlers
<1> QED BY <1>1, <1>2 DEF Throttlers

(* A request that was sent is a call to an endpoint. *)
LEMMA CallType ==
    ASSUME TypeOK, NEW r \in DOMAIN call
    PROVE  call[r].client \in Client /\ call[r].endpoint \in Endpoint
<1>1. call[r] \in Call
  BY DEF TypeOK
<1> QED BY <1>1 DEF Call

(* The key a request is counted under next is one of its client's keys. *)
LEMMA NextKeyType ==
    ASSUME TypeOK, NEW r \in Request, step[r] = "counting",
           passed[r] < Len(Throttlers(call[r].endpoint))
    PROVE  /\ NextKey(r) \in Key
           /\ NextKey(r)[1] \in Throttler
           /\ NextKey(r)[2] = call[r].client
           /\ NextKey(r)[3] = call[r].endpoint
<1>1. r \in DOMAIN call
  BY DEF TypeOK
<1>2. call[r].client \in Client /\ call[r].endpoint \in Endpoint
  BY <1>1, CallType
<1>3. Throttlers(call[r].endpoint) \in Seq(Throttler)
  BY <1>2, ThrottlersType
<1>4. passed[r] + 1 \in 1 .. Len(Throttlers(call[r].endpoint))
  BY <1>3 DEF TypeOK
<1>5. Throttlers(call[r].endpoint)[passed[r] + 1] \in Throttler
  BY <1>3, <1>4
<1> QED BY <1>2, <1>5 DEF NextKey, generateKey, Key

(* Counting a request r under an unblocked key adds it; under a blocked key
   nothing changes.  Other keys keep their counts.                         *)
LEMMA IncrementCounts ==
    ASSUME TypeOK, Counted, NEW k \in Key, NEW r \in Request, Increment(k, r)
    PROVE  /\ hits' \subseteq Key \X Request
           /\ blocked' \subseteq Key
           /\ hits \subseteq hits'
           /\ blocked \subseteq blocked'
           /\ \A l \in Key \ blocked' : Cardinality(In(hits', l)) <= Limit[l[1]]
           /\ k \notin blocked' => <<k, r>> \in hits'
<1>1. hits' \subseteq Key \X Request /\ blocked' \subseteq Key /\ hits \subseteq hits' /\ blocked \subseteq blocked'
  BY DEF Increment, TypeOK
<1>2. ASSUME NEW l \in Key \ blocked'
      PROVE  Cardinality(In(hits', l)) <= Limit[l[1]]
  <2>1. In(hits', l) \in SUBSET Request /\ Cardinality(In(hits', l)) \in Nat
    BY RequestsFinite DEF In
  <2>2. Limit[l[1]] \in Nat
    BY LimitAssumption DEF Key
  <2>3. CASE l = k
    BY <2>1, <2>2, <2>3 DEF Increment
  <2>4. CASE l # k
    <3>1. In(hits', l) = In(hits, l)
      BY <2>4 DEF Increment, In
    <3> QED BY <1>1, <3>1 DEF Counted
  <2> QED BY <2>3, <2>4
<1>3. k \notin blocked' => <<k, r>> \in hits'
  BY <1>1 DEF Increment
<1> QED BY <1>1, <1>2, <1>3

(* The types and the counting survive every step. *)
LEMMA InvStep ==
    ASSUME RequestsInv, [Next]_vars
    PROVE  RequestsInv'
<1> USE DEF RequestsInv
<1>1. ASSUME NEW r \in Request, Send(r)
      PROVE  RequestsInv'
  <2>1. passed[r] = 0 /\ r \in DOMAIN call
    BY <1>1 DEF Send, TypeOK
  <2>2. call[r].endpoint \in Endpoint
    BY <2>1, CallType
  <2>3. Len(Throttlers(call[r].endpoint)) \in Nat
    BY <2>2, ThrottlersType
  <2>4. TypeOK'
    BY <1>1, <2>1, <2>3 DEF Send, TypeOK, storage
  <2>5. Counted'
    BY <1>1 DEF Send, Counted, In, storage
  <2> QED BY <2>4, <2>5
<1>2. ASSUME NEW r \in Request, Count(r)
      PROVE  RequestsInv'
  <2> DEFINE k == NextKey(r)
  <2>1. step[r] = "counting" /\ passed[r] < Len(Throttlers(call[r].endpoint)) /\ Increment(k, r)
    BY <1>2 DEF Count
  <2>2. r \in DOMAIN call /\ passed[r] \in Nat
    BY <2>1 DEF TypeOK
  <2>3. k \in Key
    BY <2>1, NextKeyType
  <2> HIDE DEF k
  <2>4. /\ hits' \subseteq Key \X Request
        /\ blocked' \subseteq Key
        /\ hits \subseteq hits'
        /\ \A l \in Key \ blocked' : Cardinality(In(hits', l)) <= Limit[l[1]]
        /\ k \notin blocked' => <<k, r>> \in hits'
    BY <2>1, <2>3, IncrementCounts
  <2>5. CASE k \in blocked'
    <3>1. step' = [step EXCEPT ![r] = "refused"] /\ UNCHANGED <<call, passed, admitted>>
      BY <1>2, <2>5 DEF Count, Throw, k
    <3>2. TypeOK'
      BY <2>1, <2>2, <2>4, <3>1 DEF TypeOK
    <3>3. Counted'
      BY <2>4, <3>1 DEF Counted, In
    <3> QED BY <3>2, <3>3
  <2>6. CASE k \notin blocked'
    <3>1. /\ passed' = [passed EXCEPT ![r] = @ + 1]
          /\ admitted' = admitted \cup {<<k, r>>}
          /\ UNCHANGED <<call, step>>
      BY <1>2, <2>6 DEF Count, k
    <3>2. call[r].endpoint \in Endpoint
      BY <2>2, CallType
    <3>3. Len(Throttlers(call[r].endpoint)) \in Nat
      BY <3>2, ThrottlersType
    <3>4. TypeOK'
      BY <2>1, <2>2, <2>3, <2>4, <3>1, <3>3 DEF TypeOK
    <3>5. Counted'
      BY <2>4, <2>6, <3>1 DEF Counted, In
    <3> QED BY <3>4, <3>5
  <2> QED BY <2>5, <2>6
<1>3. ASSUME NEW r \in Request, Admit(r) \/ Finish(r)
      PROVE  RequestsInv'
  <2>1. /\ UNCHANGED <<call, passed, hits, blocked, admitted>>
        /\ step[r] # "unsent"
        /\ \E last \in {"handling", "answered"} : step' = [step EXCEPT ![r] = last]
    BY <1>3 DEF Admit, Finish, Throw, storage
  <2>2. TypeOK'
    BY <2>1 DEF TypeOK
  <2>3. Counted'
    BY <2>1 DEF Counted, In
  <2> QED BY <2>2, <2>3
<1>4. ASSUME NEW h \in hits \cup admitted, Expire(h)
      PROVE  RequestsInv'
  <2>1. TypeOK'
    BY <1>4 DEF Expire, TypeOK, login
  <2>2. ASSUME NEW l \in Key \ blocked
        PROVE  Cardinality(In(hits', l)) <= Limit[l[1]]
    <3>1. In(hits', l) \in SUBSET In(hits, l) /\ In(hits, l) \in SUBSET Request
      BY <1>4 DEF Expire, In
    <3>2. Cardinality(In(hits', l)) <= Cardinality(In(hits, l))
      BY <3>1, RequestsCount
    <3>3. Cardinality(In(hits', l)) \in Nat /\ Cardinality(In(hits, l)) \in Nat
      BY <3>1, RequestsFinite
    <3>4. Limit[l[1]] \in Nat
      BY LimitAssumption DEF Key
    <3>5. Cardinality(In(hits, l)) <= Limit[l[1]]
      BY DEF Counted
    <3> QED BY <3>2, <3>3, <3>4, <3>5
  <2>3. Counted'
    BY <1>4, <2>2 DEF Expire, Counted, In
  <2> QED BY <2>1, <2>3
<1>5. ASSUME NEW k \in blocked, Unblock(k)
      PROVE  RequestsInv'
  <2>1. TypeOK'
    BY <1>5 DEF Unblock, TypeOK, login
  <2>2. Cardinality(In(hits, k)) <= Limit[k[1]]
    <3>1. In(hits, k) = {}
      BY <1>5 DEF Unblock, In
    <3>2. Limit[k[1]] \in Nat /\ k \in Key
      BY LimitAssumption DEF Key, TypeOK
    <3> QED BY <3>1, <3>2, FS_EmptySet
  <2>3. Counted'
    BY <1>5, <2>2 DEF Unblock, Counted, In
  <2> QED BY <2>1, <2>3
<1>6. ASSUME NEW disable \in BOOLEAN, DisableLogin(disable)
      PROVE  RequestsInv'
  BY <1>6 DEF DisableLogin, TypeOK, Counted, In, storage
<1>7. CASE UNCHANGED vars
  BY <1>7 DEF vars, TypeOK, Counted, In
<1> QED BY <1>1, <1>2, <1>3, <1>4, <1>5, <1>6, <1>7 DEF Next, Advance

(* Whatever a throttler let through in a window is within its limit: it is
   counted, and while the key is not blocked the count is within the limit;
   when the key is blocked nothing more is let through.                    *)
Admissions == RequestsInv /\ \A k \in Key : Cardinality(In(admitted, k)) <= Limit[k[1]]

LEMMA AdmissionsInit == Init => Admissions
<1> SUFFICES ASSUME Init PROVE Admissions
  OBVIOUS
<1>1. TypeOK
  BY CallsAssumption DEF Init, TypeOK
<1>2. ASSUME NEW k \in Key
      PROVE  /\ Cardinality(In(hits, k)) <= Limit[k[1]]
             /\ Cardinality(In(admitted, k)) <= Limit[k[1]]
  <2>1. In(hits, k) = {} /\ In(admitted, k) = {}
    BY DEF Init, In
  <2>2. Limit[k[1]] \in Nat
    BY LimitAssumption DEF Key
  <2> QED BY <2>1, <2>2, FS_EmptySet
<1>3. Counted
  BY <1>2 DEF Init, Counted
<1> QED BY <1>1, <1>2, <1>3 DEF Admissions, RequestsInv

(* Only Count lets a request through, and then under an unblocked key. *)
LEMMA AdmittedStep ==
    ASSUME RequestsInv, [Next]_vars
    PROVE  \/ admitted' \subseteq admitted
           \/ \E k \in Key, r \in Request :
                 k \notin blocked' /\ admitted' = admitted \cup {<<k, r>>}
<1>1. ASSUME NEW r \in Request, Count(r), ~ (admitted' \subseteq admitted)
      PROVE  \E k \in Key : k \notin blocked' /\ admitted' = admitted \cup {<<k, r>>}
  <2>1. NextKey(r) \in Key
    BY <1>1, NextKeyType DEF Count, RequestsInv
  <2>2. NextKey(r) \notin blocked' /\ admitted' = admitted \cup {<<NextKey(r), r>>}
    BY <1>1 DEF Count
  <2> QED BY <2>1, <2>2
<1>2. ASSUME NEW r \in Request, Send(r) \/ Admit(r) \/ Finish(r)
      PROVE  admitted' \subseteq admitted
  BY <1>2 DEF Send, Admit, Finish, storage
<1>3. ASSUME NEW h \in hits \cup admitted, Expire(h)
      PROVE  admitted' \subseteq admitted
  BY <1>3 DEF Expire
<1>4. ASSUME NEW k \in blocked, Unblock(k)
      PROVE  admitted' \subseteq admitted
  BY <1>4 DEF Unblock
<1>5. ASSUME NEW disable \in BOOLEAN, DisableLogin(disable)
      PROVE  admitted' \subseteq admitted
  BY <1>5 DEF DisableLogin, storage
<1>6. CASE UNCHANGED vars
  BY <1>6 DEF vars
<1> QED BY <1>1, <1>2, <1>3, <1>4, <1>5, <1>6 DEF Next, Advance

LEMMA AdmissionsStep ==
    ASSUME Admissions, [Next]_vars
    PROVE  Admissions'
<1>1. RequestsInv /\ RequestsInv'
  BY InvStep DEF Admissions
<1>2. ASSUME NEW k \in Key
      PROVE  Cardinality(In(admitted', k)) <= Limit[k[1]]
  <2>1. /\ In(admitted, k) \in SUBSET Request /\ Cardinality(In(admitted, k)) \in Nat
        /\ In(admitted', k) \in SUBSET Request /\ Cardinality(In(admitted', k)) \in Nat
        /\ In(hits', k) \in SUBSET Request /\ Cardinality(In(hits', k)) \in Nat
    BY RequestsFinite DEF In
  <2>2. Limit[k[1]] \in Nat
    BY LimitAssumption DEF Key
  <2>3. CASE In(admitted', k) \subseteq In(admitted, k)
    <3>1. Cardinality(In(admitted', k)) <= Cardinality(In(admitted, k))
      BY <2>1, <2>3, RequestsCount
    <3>2. Cardinality(In(admitted, k)) <= Limit[k[1]]
      BY DEF Admissions
    <3> QED BY <2>1, <2>2, <3>1, <3>2
  <2>4. CASE ~ (In(admitted', k) \subseteq In(admitted, k))
    <3>1. k \notin blocked'
      BY <1>1, <2>4, AdmittedStep DEF In
    <3>2. Cardinality(In(hits', k)) <= Limit[k[1]]
      BY <1>1, <3>1 DEF RequestsInv, Counted, In
    <3>3. In(admitted', k) \in SUBSET In(hits', k)
      BY <1>1 DEF RequestsInv, Counted, In
    <3>4. Cardinality(In(admitted', k)) <= Cardinality(In(hits', k))
      BY <2>1, <3>3, RequestsCount
    <3> QED BY <2>1, <2>2, <3>2, <3>4
  <2> QED BY <2>3, <2>4
<1>3. Admissions' = (RequestsInv' /\ \A k \in Key : Cardinality(In(admitted', k)) <= Limit[k[1]])
  BY DEF Admissions, In
<1> QED BY <1>1, <1>2, <1>3

(* The types and the counts are right in every state. *)
THEOREM CountsAreRight == Spec => []RequestsInv
<1>1. Init => RequestsInv
  BY AdmissionsInit DEF Admissions
<1>2. RequestsInv /\ [Next]_vars => RequestsInv'
  BY InvStep
<1> QED BY <1>1, <1>2, PTL DEF Spec

(* No client gets more requests through to an endpoint than a throttler's
   limit in its window, however its requests interleave.                   *)
THEOREM LimitsHold == Spec => []WithinLimit
<1>1. Init => Admissions
  BY AdmissionsInit
<1>2. Admissions /\ [Next]_vars => Admissions'
  BY AdmissionsStep
<1>3. Admissions => WithinLimit
  BY DEF Admissions, WithinLimit, RequestsInv, TypeOK
<1> QED BY <1>1, <1>2, <1>3, PTL DEF Spec

(***************************************************************************)
(* Who is refused has sent too much: every counted request was sent by the *)
(* client of the key, so a blocked key has more of them than its limit,    *)
(* and that stays so.                                                      *)
(***************************************************************************)
Senders(k) == {q \in Request : step[q] # "unsent" /\ call[q].client = k[2] /\ call[q].endpoint = k[3]}

Over(k) == Cardinality(Senders(k)) > Limit[k[1]]

Own ==
    /\ \A h \in hits : h[2] \in Senders(h[1])
    /\ \A k \in blocked : Over(k)
    /\ \A r \in Request : step[r] = "refused" =>
          \E k \in Key : k[2] = call[r].client /\ k[3] = call[r].endpoint /\ Over(k)

(* A client that has sent too much does not get any better. *)
LEMMA OverStays ==
    ASSUME NEW k \in Key, Over(k), Senders(k) \subseteq Senders(k)'
    PROVE  Over(k)'
<1>1. Senders(k)' \in SUBSET Request /\ Senders(k) \in SUBSET Request
  BY DEF Senders
<1>2. Cardinality(Senders(k)) <= Cardinality(Senders(k)')
  BY <1>1, RequestsCount
<1>3. Cardinality(Senders(k)) \in Nat /\ Cardinality(Senders(k)') \in Nat
  BY <1>1, RequestsFinite
<1>4. Limit[k[1]] \in Nat
  BY LimitAssumption DEF Key
<1> QED BY <1>2, <1>3, <1>4 DEF Over

(* Requests are never unsent again and keep their calls. *)
LEMMA SendersStay ==
    ASSUME RequestsInv, [Next]_vars, NEW k \in Key
    PROVE  call' = call /\ Senders(k) \subseteq Senders(k)'
<1>1. ASSUME NEW r \in Request, Send(r)
      PROVE  call' = call /\ Senders(k) \subseteq Senders(k)'
  BY <1>1 DEF Send, Senders, RequestsInv, TypeOK
<1>2. ASSUME NEW r \in Request, Advance(r)
      PROVE  call' = call /\ Senders(k) \subseteq Senders(k)'
  <2>1. call' = call
    BY <1>2 DEF Advance, Count, Admit, Finish
  <2>2. step' = step \/ \E last \in {"refused", "handling", "answered"} : step' = [step EXCEPT ![r] = last]
    BY <1>2 DEF Advance, Count, Admit, Finish, Throw
  <2> QED BY <2>1, <2>2 DEF Senders, RequestsInv, TypeOK
<1>3. CASE UNCHANGED <<call, step>>
  BY <1>3 DEF Senders
<1> QED BY <1>1, <1>2, <1>3 DEF Next, Expire, Unblock, DisableLogin, vars

LEMMA OwnStep ==
    ASSUME RequestsInv, Own, [Next]_vars
    PROVE  Own'
<1>1. \A k \in Key : call' = call /\ Senders(k) \subseteq Senders(k)'
  BY SendersStay
<1>2. \A k \in Key : Over(k) => Over(k)'
  BY <1>1, OverStays
<1>3. Key # {} => call' = call
  BY <1>1
<1>4. ASSUME NEW r \in Request, Count(r)
      PROVE  Own'
  <2> DEFINE k == NextKey(r)
  <2>1. step[r] = "counting" /\ passed[r] < Len(Throttlers(call[r].endpoint)) /\ Increment(k, r)
    BY <1>4 DEF Count
  <2>2. k \in Key /\ k[2] = call[r].client /\ k[3] = call[r].endpoint
    BY <2>1, NextKeyType DEF RequestsInv
  <2>3. k \in blocked' => step' = [step EXCEPT ![r] = "refused"]
    BY <1>4 DEF Count, Throw
  <2>4. k \notin blocked' => step' = step
    BY <1>4 DEF Count
  <2> HIDE DEF k
  <2>5. \A h \in hits' : h[2] \in Senders(h[1])
    BY <2>1, <2>2 DEF Increment, Own, Senders
  <2>6. hits' \subseteq Key \X Request /\ blocked' \subseteq Key
    BY <2>1, <2>2, IncrementCounts DEF RequestsInv
  <2>7. \A l \in blocked' : Over(l)
    <3>1. CASE Cardinality(In(hits', k)) > Limit[k[1]]
      <4>1. In(hits', k) \in SUBSET Senders(k) /\ Senders(k) \in SUBSET Request
        BY <2>5 DEF In, Senders
      <4>2. Cardinality(In(hits', k)) <= Cardinality(Senders(k))
        BY <4>1, RequestsCount
      <4>3. Cardinality(In(hits', k)) \in Nat /\ Cardinality(Senders(k)) \in Nat
        BY <4>1, RequestsFinite
      <4>4. Limit[k[1]] \in Nat
        BY <2>2, LimitAssumption DEF Key
      <4>5. Over(k)
        BY <3>1, <4>2, <4>3, <4>4 DEF Over
      <4> QED BY <2>1, <4>5 DEF Increment, Own
    <3>2. CASE ~ (Cardinality(In(hits', k)) > Limit[k[1]])
      BY <2>1, <3>2 DEF Increment, Own
    <3> QED BY <3>1, <3>2
  <2>8. \A h \in hits' : h[2] \in Senders(h[1])'
    BY <1>1, <2>5, <2>6
  <2>9. \A l \in blocked' : Over(l)'
    BY <1>2, <2>6, <2>7
  <2>10. ASSUME NEW q \in Request, step'[q] = "refused"
         PROVE  \E l \in Key : l[2] = call[q].client /\ l[3] = call[q].endpoint /\ Over(l)
    <3>1. CASE step[q] = "refused"
      BY <3>1 DEF Own
    <3>2. CASE step[q] # "refused"
      <4>1. q = r /\ k \in blocked'
        BY <2>3, <2>4, <2>10, <3>2 DEF RequestsInv, TypeOK
      <4> QED BY <2>2, <2>7, <4>1
    <3> QED BY <3>1, <3>2
  <2>11. \A q \in Request : step'[q] = "refused" =>
            \E l \in Key : l[2] = call'[q].client /\ l[3] = call'[q].endpoint /\ Over(l)'
    BY <1>2, <1>3, <2>2, <2>10
  <2> QED BY <2>8, <2>9, <2>11 DEF Own
<1>5. ASSUME hits' \subseteq hits, blocked' \subseteq blocked, call' = call,
             \A q \in Request : step'[q] = "refused" => step[q] = "refused"
      PROVE  Own'
  <2>1. \A h \in hits' : h[2] \in Senders(h[1])'
    BY <1>1, <1>5 DEF Own, RequestsInv, TypeOK
  <2>2. \A k \in blocked' : Over(k)'
    BY <1>2, <1>5 DEF Own, RequestsInv, TypeOK
  <2>3. \A r \in Request : step'[r] = "refused" =>
            \E k \in Key : k[2] = call'[r].client /\ k[3] = call'[r].endpoint /\ Over(k)'
    BY <1>2, <1>5 DEF Own
  <2> QED BY <2>1, <2>2, <2>3 DEF Own
<1>6. ASSUME NEW r \in Request, Send(r) \/ Admit(r) \/ Finish(r)
      PROVE  Own'
  <2>1. /\ UNCHANGED <<hits, blocked, call>>
        /\ \E last \in {"counting", "handling", "answered"} : step' = [step EXCEPT ![r] = last]
    BY <1>6 DEF Send, Admit, Finish, Throw, storage
  <2> QED BY <1>5, <2>1 DEF RequestsInv, TypeOK
<1>7. ASSUME NEW h \in hits \cup admitted, Expire(h)
      PROVE  Own'
  BY <1>5, <1>7 DEF Expire
<1>8. ASSUME NEW k \in blocked, Unblock(k)
      PROVE  Own'
  BY <1>5, <1>8 DEF Unblock
<1>9. ASSUME NEW disable \in BOOLEAN, DisableLogin(disable)
      PROVE  Own'
  BY <1>5, <1>9 DEF DisableLogin, storage
<1>10. CASE UNCHANGED vars
  BY <1>5, <1>10 DEF vars
<1> QED BY <1>4, <1>6, <1>7, <1>8, <1>9, <1>10 DEF Next, Advance

(* A client is refused only after it has itself sent more requests to the
   endpoint than the limit of some throttler.                              *)
THEOREM RefusalsAreDeserved == Spec => []RefusedWereOver
<1>1. Init => RequestsInv /\ Own
  BY AdmissionsInit DEF Admissions, Init, Own
<1>2. RequestsInv /\ Own /\ [Next]_vars => (RequestsInv /\ Own)'
  BY InvStep, OwnStep
<1>3. RequestsInv /\ Own => RefusedWereOver
  <2> SUFFICES ASSUME RequestsInv, Own, NEW r \in Request, step[r] = "refused"
               PROVE  \E t \in Throttler :
                        Cardinality({q \in Request : step[q] # "unsent" /\ Same(q, r)}) > Limit[t]
    BY DEF RefusedWereOver
  <2>1. PICK k \in Key : k[2] = call[r].client /\ k[3] = call[r].endpoint /\ Over(k)
    BY DEF Own
  <2>2. Senders(k) = {q \in Request : step[q] # "unsent" /\ Same(q, r)}
    BY <2>1 DEF Senders, Same
  <2>3. k[1] \in Throttler
    BY DEF Key
  <2> QED BY <2>1, <2>2, <2>3 DEF Over
<1> QED BY <1>1, <1>2, <1>3, PTL DEF Spec

(***************************************************************************)
(* No failure passes unnoticed.  What the guards, pipes and handlers of    *)
(* the endpoints throw is known; what the filters make of it, too.         *)
(***************************************************************************)
Thrown == Of(Kind) \cup {Framework(400), Plain, Wrapped(Exception("internal"))}

RouteType == [context : {"http", "ws"}, auth : BOOLEAN, filtered : BOOLEAN,
              rejects : Thrown, throws : SUBSET Thrown]

(* The statuses of the program's exceptions tell them apart. *)
LEMMA StatusType ==
    /\ Kind = {"contract", "unauthorized", "business", "notFound", "conflict", "manyRequests",
               "invalidToken", "internal", "integration"}
    /\ \A k \in Kind : Status[k] \in Nat
    /\ \A k \in Kind : Status[k] >= 500 <=> k \in {"internal", "integration"}
    /\ \A k \in Kind : Status[k] \in {429, 498} => k \in {"manyRequests", "invalidToken"}
    /\ \A k, l \in Kind : Status[k] = Status[l] => k = l
<1>1. Kind = {"contract", "unauthorized", "business", "notFound", "conflict", "manyRequests",
              "invalidToken", "internal", "integration"}
  BY DEF Kind, Status
<1>2. /\ Status["contract"] = 400 /\ Status["unauthorized"] = 401 /\ Status["business"] = 403
      /\ Status["notFound"] = 404 /\ Status["conflict"] = 409 /\ Status["manyRequests"] = 429
      /\ Status["invalidToken"] = 498 /\ Status["internal"] = 500 /\ Status["integration"] = 503
  BY DEF Status
<1> QED BY <1>1, <1>2

(* The parser keeps the status of the program's own exceptions, and makes
   internal ones of what it does not know.                                 *)
LEMMA ParserType ==
    /\ \A k \in Kind : externalErrorParser(Exception(k)).status = Status[k]
    /\ externalErrorParser(Framework(400)).status = 400
    /\ externalErrorParser(Plain).status = 500
    /\ externalErrorParser(Wrapped(Exception("internal"))).status = 500
<1> USE DEF externalErrorParser, Exception
<1>1. ASSUME NEW k \in Kind
      PROVE  exceptionsMapper(Status[k]) = k
  BY StatusType DEF exceptionsMapper
<1>2. Status["internal"] = 500 /\ Status["contract"] = 400 /\ {"internal", "contract"} \subseteq Kind
  BY DEF Status, Kind
<1>3. \A k \in Kind : externalErrorParser(Exception(k)).status = Status[k]
  BY <1>1
<1>4. externalErrorParser(Framework(400)).status = 400
  BY <1>1, <1>2 DEF Framework
<1>5. externalErrorParser(Plain).status = 500
  BY <1>2 DEF Plain
<1>6. externalErrorParser(Wrapped(Exception("internal"))).status = 500
  BY <1>2 DEF Wrapped
<1> QED BY <1>3, <1>4, <1>5, <1>6

AnswerType == [status : Nat, severity : {"none", "warning", "error", "fatal"}]

(* What an answer has to be where a filter gave it. *)
IsReported(a) ==
    /\ a.status >= 500 => a.severity \in {"error", "fatal"}
    /\ a.status \in {429, 498} => a.severity = "none"

(* Both filters report the failures of the server, and no refusals. *)
LEMMA FiltersReport ==
    ASSUME NEW e \in Thrown
    PROVE  /\ {HttpExceptionsFilter(e), WebSocketExceptionsFilter(e), DefaultExceptionsFilter(e)}
              \subseteq AnswerType
           /\ IsReported(HttpExceptionsFilter(e)) /\ IsReported(WebSocketExceptionsFilter(e))
<1> USE DEF HttpExceptionsFilter, WebSocketExceptionsFilter, DefaultExceptionsFilter, Answer,
            AnswerType, IsReported, capture, captureException, Severity, Ignored
<1>1. ASSUME NEW k \in Kind, e = Exception(k)
      PROVE  /\ e.class = "HttpException" /\ e.name = k /\ e.status = Status[k]
             /\ externalErrorParser(e).status = Status[k]
  BY <1>1, ParserType DEF Exception
<1>2. ASSUME NEW k \in Kind, e = Exception(k)
      PROVE  /\ {HttpExceptionsFilter(e), WebSocketExceptionsFilter(e), DefaultExceptionsFilter(e)}
                \subseteq AnswerType
             /\ IsReported(HttpExceptionsFilter(e)) /\ IsReported(WebSocketExceptionsFilter(e))
  <2> DEFINE n == Status[k]
             parsed == externalErrorParser(e).status
  <2>1. /\ n \in Nat /\ (n >= 500 => k \in {"internal", "integration"})
        /\ n \in {429, 498} => k \in {"manyRequests", "invalidToken"}
    BY StatusType
  <2>2. e.class = "HttpException" /\ e.name = k /\ e.status = n /\ parsed = n
    BY <1>1, <1>2
  <2> HIDE DEF n, parsed
  <2> QED BY <2>1, <2>2 DEF parsed
<1>3. CASE e = Framework(400)
  <2>1. e.class = "HttpException" /\ e.name = "framework" /\ e.status = 400
    BY <1>3 DEF Framework
  <2> QED BY <1>3, <2>1, ParserType
<1>4. CASE e = Plain
  <2>1. e.class = "Error"
    BY <1>4 DEF Plain
  <2> QED BY <1>4, <2>1, ParserType
<1>5. CASE e = Wrapped(Exception("internal"))
  <2>1. e.class = "WsException" /\ e.status = 500
    BY <1>5 DEF Wrapped, Exception, Status
  <2> QED BY <1>5, <2>1, ParserType
<1> QED BY <1>2, <1>3, <1>4, <1>5 DEF Thrown, Of

(* What can be thrown at an endpoint is known, for every one of them. *)
LEMMA RouteTypes == \A e \in Endpoint : Route[e] \in RouteType
<1>1. /\ \A k \in Kind : Exception(k) \in Thrown
      /\ {Framework(400), Plain, Wrapped(Exception("internal"))} \subseteq Thrown
  BY DEF Thrown, Of
<1>2. {"contract", "unauthorized", "business", "conflict", "internal"} \subseteq Kind
  BY DEF Kind, Status
<1>3. ASSUME NEW auth \in BOOLEAN, NEW rejects \in Thrown, NEW throws \in SUBSET Thrown
      PROVE  Http(auth, rejects, throws) \in RouteType
  BY DEF Http, RouteType
<1>4. \A K \in SUBSET Kind : Of(K) \subseteq Thrown
  BY <1>1 DEF Of
<1> HIDE DEF Thrown
<1>5. /\ Exception("contract") \in Thrown /\ Framework(400) \in Thrown /\ Plain \in Thrown
      /\ Exception("conflict") \in Thrown
      /\ {Plain} \in SUBSET Thrown /\ {} \in SUBSET Thrown
  BY <1>1, <1>2
<1>6. /\ Of({"internal"}) \in SUBSET Thrown
      /\ Of({"unauthorized"}) \in SUBSET Thrown
      /\ Of({"unauthorized", "internal"}) \in SUBSET Thrown
      /\ Of({"unauthorized", "conflict", "internal"}) \in SUBSET Thrown
      /\ Of({"unauthorized", "business", "internal"}) \in SUBSET Thrown
  BY <1>2, <1>4
<1> DEFINE All(f) == \A e \in DOMAIN f : f[e] \in RouteType
<1>7. All(UserController)
  <2> DEFINE list == Http(TRUE, Exception("contract"), Of({"internal"}))
             create == Http(TRUE, Exception("contract"), Of({"unauthorized", "conflict", "internal"}))
             enter == Http(FALSE, Exception("contract"), Of({"unauthorized"}))
             get == Http(TRUE, Framework(400), Of({"unauthorized", "internal"}))
             update == Http(TRUE, Exception("contract"), Of({"unauthorized", "business", "internal"}))
             delete == Http(TRUE, Framework(400), Of({"unauthorized", "business", "internal"}))
  <2>1. /\ list \in RouteType /\ create \in RouteType /\ enter \in RouteType
        /\ get \in RouteType /\ update \in RouteType /\ delete \in RouteType
    BY <1>3, <1>5, <1>6, ZenonT(60)
  <2>2. UserController = [listUsers |-> list,
                          createUser |-> create,
                          loginUser |-> enter,
                          getUser |-> get,
                          updateUser |-> update,
                          deleteUser |-> delete]
    BY DEF UserController
  <2> HIDE DEF list, create, enter, get, update, delete
  <2> QED BY <2>1, <2>2
<1>8. All(HookController)
  <2> DEFINE register == Http(TRUE, Exception("contract"), {Plain})
  <2>1. register \in RouteType
    BY <1>3, <1>5
  <2>2. HookController = [registerEventHook |-> register]
    BY DEF HookController
  <2> HIDE DEF register
  <2> QED BY <2>1, <2>2
<1>9. All(FileController)
  <2> DEFINE file == Http(TRUE, Framework(400), Of({"internal"}))
  <2>1. file \in RouteType
    BY <1>3, <1>5, <1>6, ZenonT(60)
  <2>2. FileController = [downloadFile |-> file,
                          uploadFile |-> file]
    BY DEF FileController
  <2> HIDE DEF file
  <2> QED BY <2>1, <2>2
<1>10. All(SubscriptionController)
  <2> DEFINE list == Http(TRUE, Framework(400), {Plain})
  <2>1. list \in RouteType
    BY <1>3, <1>5, ZenonT(60)
  <2>2. SubscriptionController = [listSubscriptions |-> list]
    BY DEF SubscriptionController
  <2> HIDE DEF list
  <2> QED BY <2>1, <2>2
<1>11. Http(FALSE, Framework(400), {}) \in RouteType
  BY <1>3, <1>5, ZenonT(60)
<1>12. All(HealthController)
  <2> DEFINE check == Http(FALSE, Framework(400), {})
  <2>1. check \in RouteType
    BY <1>11
  <2>2. HealthController = [healthCheck |-> check,
                            healthCheckV1 |-> check]
    BY DEF HealthController
  <2> HIDE DEF check
  <2> QED BY <2>1, <2>2
<1>13. All(ServerEventsController)
  <2> DEFINE get == [Http(FALSE, Framework(400), {}) EXCEPT !.filtered = FALSE]
  <2>1. get \in RouteType
    BY <1>5 DEF Http, RouteType
  <2>2. ServerEventsController = [getSubscription |-> get]
    BY DEF ServerEventsController
  <2> HIDE DEF get
  <2> QED BY <2>1, <2>2
<1>14. All(WebSocketServer)
  <2> DEFINE again == [context |-> "ws", auth |-> FALSE, filtered |-> TRUE,
                       rejects |-> Plain, throws |-> {Exception("conflict"), Plain}]
  <2>1. again \in RouteType
    BY <1>5 DEF RouteType
  <2>2. WebSocketServer = [reconnect |-> again]
    BY DEF WebSocketServer
  <2> HIDE DEF again
  <2> QED BY <2>1, <2>2
<1>15. \A i \in DOMAIN Controllers : All(Controllers[i])
  <2> HIDE DEF All
  <2> QED BY <1>7, <1>8, <1>9, <1>10, <1>12, <1>13, <1>14 DEF Controllers
<1>16. SUFFICES ASSUME NEW e \in Endpoint PROVE Route[e] \in RouteType
  OBVIOUS
<1> DEFINE i == CHOOSE j \in DOMAIN Controllers : e \in DOMAIN Controllers[j]
<1>17. i \in DOMAIN Controllers /\ e \in DOMAIN Controllers[i]
  BY DEF Endpoint
<1>18. Controllers[i][e] \in RouteType
  <2> HIDE DEF i
  <2> QED BY <1>15, <1>17
<1> QED BY <1>18 DEF Route

(* Nothing but what is known is thrown on the way to a handler. *)
LEMMA RefusalType ==
    ASSUME NEW c \in Call
    PROVE  Refusal(c) \subseteq Thrown
<1>1. Route[c.endpoint] \in RouteType
  BY RouteTypes DEF Call
<1>2. {"invalidToken", "integration"} \subseteq Kind
  BY DEF Kind, Status
<1>3. AuthGuard(c) \subseteq Thrown /\ loginUser \subseteq Thrown
  BY <1>2 DEF AuthGuard, loginUser, Thrown, Of
<1>4. EventsGuard(c) \subseteq Thrown /\ validate(c) \subseteq Thrown
  BY <1>1 DEF EventsGuard, validate, RouteType, Thrown
<1> DEFINE route == Route[c.endpoint]
           stages == <<IF route.auth THEN AuthGuard(c) ELSE {},
                       IF route.context = "ws" THEN EventsGuard(c) ELSE validate(c),
                       IF c.endpoint = "loginUser" THEN loginUser ELSE {}>>
<1>5. DOMAIN stages = 1 .. 3 /\ \A i \in 1 .. 3 : stages[i] \subseteq Thrown
  BY <1>3, <1>4
<1> QED BY <1>5 DEF Refusal

Reported == answer \in [Request -> AnswerType] /\ ErrorsAreReported

(* To throw what is known is to be answered, and to be reported. *)
LEMMA ThrowReports ==
    ASSUME RequestsInv, Reported, NEW r \in Request, step[r] # "unsent",
           NEW e \in Thrown, NEW last, Throw(r, e, last), UNCHANGED call
    PROVE  Reported'
<1> DEFINE route == Route[call[r].endpoint]
           a == CASE ~route.filtered       -> DefaultExceptionsFilter(e)
                  [] route.context = "ws"  -> WebSocketExceptionsFilter(e)
                  [] OTHER                 -> HttpExceptionsFilter(e)
<1>1. answer' = [answer EXCEPT ![r] = a]
  BY DEF Throw
<1>2. route.filtered \in BOOLEAN
  <2>1. r \in DOMAIN call
    BY DEF RequestsInv, TypeOK
  <2>2. call[r].endpoint \in Endpoint
    BY <2>1, CallType DEF RequestsInv
  <2> QED BY <2>2, RouteTypes DEF RouteType
<1>3. a \in AnswerType /\ (route.filtered => IsReported(a))
  BY <1>2, FiltersReport
<1> HIDE DEF a
<1> QED BY <1>1, <1>3 DEF Reported, ErrorsAreReported, IsReported

LEMMA ReportedStep ==
    ASSUME RequestsInv, Reported, [Next]_vars
    PROVE  Reported'
<1>1. CASE UNCHANGED <<call, answer>>
  BY <1>1 DEF Reported, ErrorsAreReported
<1>2. ASSUME NEW r \in Request, Count(r)
      PROVE  Reported'
  <2>1. Exception("manyRequests") \in Thrown
    BY DEF Thrown, Of, Kind, Status
  <2>2. CASE Throw(r, Exception("manyRequests"), "refused")
    BY <1>2, <2>1, <2>2, ThrowReports DEF Count
  <2> QED BY <1>1, <1>2, <2>2 DEF Count
<1>3. ASSUME NEW r \in Request, Admit(r)
      PROVE  Reported'
  <2>1. ASSUME NEW e \in Refusal(call[r]), Throw(r, e, "answered")
        PROVE  Reported'
    <3>1. call[r] \in Call
      BY <1>3 DEF Admit, RequestsInv, TypeOK
    <3> QED BY <1>3, <2>1, <3>1, RefusalType, ThrowReports DEF Admit
  <2> QED BY <1>1, <1>3, <2>1 DEF Admit
<1>4. ASSUME NEW r \in Request, Finish(r)
      PROVE  Reported'
  <2>1. CASE answer' = [answer EXCEPT ![r] = Ok]
    <3>1. Ok \in AnswerType /\ IsReported(Ok)
      BY DEF Ok, Answer, AnswerType, IsReported
    <3> QED BY <1>4, <2>1, <3>1 DEF Finish, Reported, ErrorsAreReported, IsReported
  <2>2. ASSUME NEW e \in Route[call[r].endpoint].throws, Throw(r, e, "answered")
        PROVE  Reported'
    <3>1. call[r].endpoint \in Endpoint
      BY <1>4, CallType DEF Finish, RequestsInv, TypeOK
    <3>2. e \in Thrown
      BY <3>1, RouteTypes DEF RouteType
    <3> QED BY <1>4, <2>2, <3>2, ThrowReports DEF Finish
  <2> QED BY <1>4, <2>1, <2>2 DEF Finish
<1> QED BY <1>1, <1>2, <1>3, <1>4 DEF Next, Advance, Send, Expire, Unblock, DisableLogin, vars

(* Whatever an endpoint, its guards and its pipes throw: where a filter
   answers with a failure of the server's Sentry hears of an error, and
   where it refuses a client Sentry hears nothing.                         *)
THEOREM FailuresAreReported == Spec => []ErrorsAreReported
<1>1. Init => RequestsInv /\ Reported
  <2> SUFFICES ASSUME Init PROVE RequestsInv /\ Reported
    OBVIOUS
  <2>1. None \in AnswerType /\ IsReported(None)
    BY DEF None, Answer, AnswerType, IsReported
  <2>2. call \in Seq(Call) /\ Len(call) <= N /\ N \in Nat
    BY CallsAssumption DEF Init
  <2>3. DOMAIN call \subseteq Request
    BY <2>2 DEF Request
  <2> QED BY <2>1, <2>3, AdmissionsInit DEF Admissions, Init, Reported, ErrorsAreReported, IsReported
<1>2. RequestsInv /\ Reported /\ [Next]_vars => (RequestsInv /\ Reported)'
  BY InvStep, ReportedStep
<1>3. Reported => ErrorsAreReported
  BY DEF Reported
<1> QED BY <1>1, <1>2, <1>3, PTL DEF Spec
=============================================================================
