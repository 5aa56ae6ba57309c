--------------------------- MODULE WebhookProofs ---------------------------
(***************************************************************************)
(* Proofs about Webhook: the inductive invariant WebhookInv, and from it   *)
(* that removed hooks were requested, that a pull resolves only when it is *)
(* done and that pulls which do not overlap request nothing twice, for any *)
(* hooks, pulls and number of faults.                                      *)
(***************************************************************************)
EXTENDS Webhook, TLAPS

(* A failed call or a crash is counted. *)
LEMMA FaultCounts ==
    ASSUME TypeOK, Fault
    PROVE  faults' \in 0..MaxFaults /\ faults' # 0
BY WebhookAssumption DEF Fault, TypeOK

(* What other calls, registrations and time do to a hook a call knows: it may
   fall due, be requested or go, and it never comes back.                  *)
WorldMoves ==
    /\ registered \subseteq registered'
    /\ due \subseteq due'
    /\ hooks' \subseteq hooks \cup (registered' \ registered)
    /\ \A h \in Hook : requests[h] > 0 => requests'[h] > 0

LEMMA FitsAsTheWorldMoves ==
    ASSUME TypeOK, TypeOK', WorldMoves, NEW c \in Call, CallFits(c)
    PROVE  CallFits(c)'
<1>1. /\ c.unread \subseteq Hook /\ c.found \subseteq Hook /\ c.lost \subseteq Hook
      /\ c.deletes \subseteq Hook /\ c.mine \subseteq Hook
  BY DEF Call
<1>2. c.unread \cup c.found \cup c.lost \cup c.deletes \cup c.mine \subseteq registered'
  BY DEF CallFits, WorldMoves
<1>3. c.lost \cap hooks' = {}
  BY DEF CallFits, WorldMoves
<1>4. c.deletes \cap hooks' \subseteq {h \in due' : h \in Callable => requests'[h] > 0}
  BY <1>1 DEF CallFits, WorldMoves
<1>5. c.mine \cap hooks' \subseteq c.mine \cap hooks
  BY DEF CallFits, WorldMoves
<1> QED
  BY <1>2, <1>3, <1>4, <1>5 DEF CallFits

(* A step of p that leaves the hooks alone keeps the invariant when p fits where
   it goes and, while pulls come one after the other, still awaits no other
   deletion, begins none and has read nothing it should not have.          *)
LEMMA PullMoves ==
    ASSUME WebhookInv, NEW p \in Pull, NEW c \in Call,
           pull' = [pull EXCEPT ![p] = c], CallFits(c),
           UNCHANGED <<registered, hooks, expired, due, requests, overlapped>>,
           faults' \in 0..MaxFaults, faults' = 0 => faults = 0,
           ~Over(p), faults' = 0 => c.deletes = pull[p].deletes,
           ~overlapped /\ faults' = 0 /\ c.step \in {"keys", "values"} =>
               \A h \in c.unread \cup c.found : requests[h] = 0
    PROVE  WebhookInv'
<1>1. pull' \in [Pull -> Call] /\ pull'[p] = c /\ \A q \in Pull : q # p => pull'[q] = pull[q]
  BY DEF WebhookInv, TypeOK
<1>2. TypeOK'
  BY <1>1 DEF WebhookInv, TypeOK
<1>3. \A q \in Pull : CallFits(pull[q])'
  BY <1>1 DEF WebhookInv, CallFits
<1>4. (\A h \in Hook \ registered : h \notin hooks /\ requests[h] = 0)' /\ NotDueIsKept'
  BY DEF WebhookInv, NotDueIsKept
<1>5. OneAfterTheOther'
  <2> SUFFICES ASSUME ~overlapped, faults' = 0
               PROVE  /\ \A q, r \in Pull : q # r => Over(q)' \/ Over(r)'
                      /\ \A h \in hooks : requests[h] > 0 => \E q \in Pull : h \in pull'[q].deletes
                      /\ \A q \in Pull, h \in Hook :
                            pull'[q].step \in {"keys", "values"} /\ h \in pull'[q].unread \cup pull'[q].found
                                => requests[h] = 0
    BY DEF OneAfterTheOther
  <2>1. ~overlapped /\ faults = 0 /\ c.deletes = pull[p].deletes
    OBVIOUS
  <2>2. \A q \in Pull : q # p => Over(q)'
    BY <1>1, <2>1 DEF WebhookInv, OneAfterTheOther, Over
  <2>3. \A h \in hooks : requests[h] > 0 => \E q \in Pull : h \in pull'[q].deletes
    BY <1>1, <2>1 DEF WebhookInv, OneAfterTheOther
  <2>4. ASSUME NEW q \in Pull, NEW h \in Hook,
               pull'[q].step \in {"keys", "values"} /\ h \in pull'[q].unread \cup pull'[q].found
        PROVE  requests[h] = 0
    BY <1>1, <2>1, <2>4 DEF WebhookInv, OneAfterTheOther
  <2> QED
    BY <2>2, <2>3, <2>4
<1> QED
  BY <1>2, <1>3, <1>4, <1>5 DEF WebhookInv

(***************************************************************************)
(* Steps that change the hooks, or what time and registrations do to them. *)
(***************************************************************************)
LEMMA HooksComeAndGo ==
    ASSUME WebhookInv, NEW h \in Hook, Register(h) \/ FallDue(h) \/ Expire(h)
    PROVE  WebhookInv'
<1>1. UNCHANGED <<pull, requests, overlapped, faults>>
  BY DEF Register, FallDue, Expire
<1>2. TypeOK'
  BY DEF WebhookInv, TypeOK, Register, FallDue, Expire
<1>3. WorldMoves
  BY DEF WorldMoves, Register, FallDue, Expire
<1>4. ASSUME NEW p \in Pull
      PROVE  CallFits(pull[p])'
  <2>1. pull[p] \in Call /\ CallFits(pull[p])
    BY DEF WebhookInv, TypeOK
  <2>2. PICK c \in Call : c = pull[p]
    BY <2>1
  <2>3. CallFits(c)'
    BY <1>2, <1>3, <2>1, <2>2, FitsAsTheWorldMoves DEF WebhookInv
  <2> QED
    BY <1>1, <2>2, <2>3
<1>5. (\A g \in Hook \ registered : g \notin hooks /\ requests[g] = 0)'
  BY DEF WebhookInv, Register, FallDue, Expire
<1>6. NotDueIsKept'
  BY DEF WebhookInv, NotDueIsKept, Register, FallDue, Expire, TypeOK
<1>7. \A g \in hooks' \ hooks : requests[g] = 0
  BY DEF Register, FallDue, Expire, WebhookInv
<1>8. OneAfterTheOther'
  BY <1>1, <1>7 DEF WebhookInv, OneAfterTheOther, Over, TypeOK
<1> QED
  BY <1>2, <1>4, <1>5, <1>6, <1>8 DEF WebhookInv

(* A hook leaves Redis by a deletion, and only when it was due; a deletion that
   fails may have been done or not.                                        *)
LEMMA HookGoes ==
    ASSUME WebhookInv, NEW p \in Pull, NEW h \in pull[p].deletes, NEW c \in Call,
           pull' = [pull EXCEPT ![p] = c],
           c.deletes = pull[p].deletes \ {h}, c.unread = pull[p].unread, c.found = pull[p].found,
           c.lost = pull[p].lost, c.mine = pull[p].mine, c.answered = pull[p].answered,
           c.waiting = pull[p].waiting,
           UNCHANGED <<registered, expired, due, requests, overlapped>>,
           \/ hooks' = hooks \ {h} /\ c.step = pull[p].step /\ faults' = faults
           \/ /\ hooks' \in {hooks, hooks \ {h}}
              /\ c.step = IF pull[p].step = "deleting" THEN "rejected" ELSE pull[p].step
              /\ faults' \in 0..MaxFaults /\ faults' # 0
    PROVE  WebhookInv'
<1>1. pull' \in [Pull -> Call] /\ pull'[p] = c /\ \A q \in Pull : q # p => pull'[q] = pull[q]
  BY DEF WebhookInv, TypeOK
<1>2. TypeOK'
  BY <1>1 DEF WebhookInv, TypeOK
<1>3. WorldMoves
  BY DEF WorldMoves
<1>4. pull[p] \in Call /\ CallFits(pull[p])
  BY DEF WebhookInv, TypeOK
<1>5. ASSUME NEW q \in Pull
      PROVE  CallFits(pull[q])'
  <2>1. CASE q = p
    BY <1>1, <1>4, <2>1 DEF CallFits
  <2>2. CASE q # p
    <3>1. PICK d \in Call : d = pull[q] /\ CallFits(d)
      BY DEF WebhookInv, TypeOK
    <3>2. CallFits(d)'
      BY <1>2, <1>3, <3>1, FitsAsTheWorldMoves DEF WebhookInv
    <3> QED
      BY <1>1, <2>2, <3>1, <3>2
  <2> QED
    BY <2>1, <2>2
<1>6. (\A g \in Hook \ registered : g \notin hooks /\ requests[g] = 0)'
  BY DEF WebhookInv
<1>7. NotDueIsKept'
  <2>1. h \in hooks => h \in due
    BY <1>4 DEF CallFits
  <2> QED
    BY <2>1 DEF WebhookInv, NotDueIsKept
<1>8. OneAfterTheOther'
  <2> SUFFICES ASSUME ~overlapped, faults' = 0
               PROVE  /\ \A q, r \in Pull : q # r => Over(q)' \/ Over(r)'
                      /\ \A g \in hooks' : requests[g] > 0 => \E q \in Pull : g \in pull'[q].deletes
                      /\ \A q \in Pull, g \in Hook :
                            pull'[q].step \in {"keys", "values"} /\ g \in pull'[q].unread \cup pull'[q].found
                                => requests[g] = 0
    BY DEF OneAfterTheOther
  <2>1. faults = 0 /\ hooks' = hooks \ {h} /\ c.step = pull[p].step
    OBVIOUS
  <2>2. ~Over(p)
    BY DEF Over
  <2>3. \A q \in Pull : q # p => Over(q)'
    BY <1>1, <2>1, <2>2 DEF WebhookInv, OneAfterTheOther, Over
  <2>4. ASSUME NEW g \in hooks', requests[g] > 0
        PROVE  \E q \in Pull : g \in pull'[q].deletes
    <3>1. PICK q \in Pull : g \in pull[q].deletes
      BY <2>1, <2>4 DEF WebhookInv, OneAfterTheOther
    <3>2. g # h
      BY <2>1, <2>4
    <3> QED
      BY <1>1, <3>1, <3>2
  <2>5. ASSUME NEW q \in Pull, NEW g \in Hook,
               pull'[q].step \in {"keys", "values"} /\ g \in pull'[q].unread \cup pull'[q].found
        PROVE  requests[g] = 0
    BY <1>1, <2>1, <2>5 DEF WebhookInv, OneAfterTheOther
  <2> QED
    BY <2>3, <2>4, <2>5
<1> QED
  BY <1>2, <1>5, <1>6, <1>7, <1>8 DEF WebhookInv

LEMMA DeletionsKeepInv ==
    ASSUME WebhookInv, NEW p \in Pull, NEW h \in Hook, Delete(p, h) \/ DeleteFails(p, h)
    PROVE  WebhookInv'
<1>1. pull[p] \in Call /\ h \in pull[p].deletes /\ TypeOK
  BY DEF WebhookInv, TypeOK, Delete, DeleteFails
<1>2. CASE Delete(p, h)
  <2> DEFINE c == [pull[p] EXCEPT !.deletes = @ \ {h}]
  <2>1. /\ c \in Call /\ c.deletes = pull[p].deletes \ {h} /\ c.unread = pull[p].unread
        /\ c.found = pull[p].found /\ c.lost = pull[p].lost /\ c.mine = pull[p].mine
        /\ c.answered = pull[p].answered /\ c.waiting = pull[p].waiting /\ c.step = pull[p].step
    BY <1>1 DEF Call
  <2>2. pull' = [pull EXCEPT ![p] = c]
    BY <1>1, <1>2 DEF Delete, TypeOK
  <2> HIDE DEF c
  <2> QED
    BY <1>1, <1>2, <2>1, <2>2, HookGoes DEF Delete
<1>3. CASE DeleteFails(p, h)
  <2> DEFINE step == IF pull[p].step = "deleting" THEN "rejected" ELSE pull[p].step
             c == [pull[p] EXCEPT !.deletes = @ \ {h}, !.step = step]
  <2>1. step \in Steps
    BY <1>1 DEF Call, Steps
  <2> HIDE DEF step
  <2>2. /\ c \in Call /\ c.deletes = pull[p].deletes \ {h} /\ c.unread = pull[p].unread
        /\ c.found = pull[p].found /\ c.lost = pull[p].lost /\ c.mine = pull[p].mine
        /\ c.answered = pull[p].answered /\ c.waiting = pull[p].waiting /\ c.step = step
    BY <1>1, <2>1 DEF Call
  <2>3. pull' = [pull EXCEPT ![p] = c]
    BY <1>1, <1>3 DEF DeleteFails, TypeOK, step
  <2>4. faults' \in 0..MaxFaults /\ faults' # 0
    BY <1>1, <1>3, FaultCounts DEF DeleteFails
  <2>5. step = IF pull[p].step = "deleting" THEN "rejected" ELSE pull[p].step
    BY DEF step
  <2>6. hooks' \in {hooks, hooks \ {h}} /\ UNCHANGED <<registered, expired, due, requests, overlapped>>
    BY <1>3 DEF DeleteFails
  <2> HIDE DEF c
  <2> QED
    BY <1>1, <2>2, <2>3, <2>4, <2>5, <2>6, HookGoes
<1> QED
  BY <1>2, <1>3

(***************************************************************************)
(* Steps of a pull.                                                        *)
(***************************************************************************)
LEMMA BeginKeepsInv ==
    ASSUME WebhookInv, NEW p \in Pull, Begin(p)
    PROVE  WebhookInv'
<1> DEFINE c == [NoCall EXCEPT !.step = "keys"]
<1>1. /\ c \in Call /\ c.step = "keys" /\ c.unread = {} /\ c.found = {} /\ c.lost = {}
      /\ c.deletes = {} /\ c.waiting = {} /\ c.mine = {}
  BY DEF NoCall, Call, Steps
<1> HIDE DEF c
<1>2. pull' = [pull EXCEPT ![p] = c]
  BY DEF Begin, c
<1>3. pull' \in [Pull -> Call] /\ pull'[p] = c /\ \A q \in Pull : q # p => pull'[q] = pull[q]
  BY <1>1, <1>2 DEF WebhookInv, TypeOK
<1>4. UNCHANGED <<registered, hooks, expired, due, requests, faults>>
  BY DEF Begin
<1>5. TypeOK'
  BY <1>3 DEF WebhookInv, TypeOK, Begin
<1>6. \A q \in Pull : CallFits(pull[q])'
  BY <1>1, <1>3, <1>4 DEF WebhookInv, CallFits
<1>7. (\A h \in Hook \ registered : h \notin hooks /\ requests[h] = 0)' /\ NotDueIsKept'
  BY <1>4 DEF WebhookInv, NotDueIsKept
<1>8. OneAfterTheOther'
  <2> SUFFICES ASSUME ~overlapped', faults' = 0
               PROVE  /\ \A q, r \in Pull : q # r => Over(q)' \/ Over(r)'
                      /\ \A h \in hooks : ~(requests[h] > 0)
                      /\ \A q \in Pull, h \in Hook :
                            pull'[q].step \in {"keys", "values"} /\ h \in pull'[q].unread \cup pull'[q].found
                                => requests[h] = 0
    BY <1>4 DEF OneAfterTheOther
  <2>1. \A q \in Pull : Over(q)
    BY DEF Begin
  <2>2. ~overlapped /\ faults = 0
    BY <1>4 DEF Begin, WebhookInv, TypeOK
  <2>3. \A q \in Pull : q # p => Over(q)'
    BY <1>3, <2>1 DEF Over
  <2>4. \A h \in hooks : ~(requests[h] > 0)
    BY <2>1, <2>2 DEF WebhookInv, OneAfterTheOther, Over
  <2>5. \A q \in Pull : q # p => pull'[q].step \notin {"keys", "values"}
    BY <2>3 DEF Over
  <2> QED
    BY <1>1, <1>3, <2>3, <2>4, <2>5
<1> QED
  BY <1>5, <1>6, <1>7, <1>8 DEF WebhookInv

(* Reading: the keys, then each value. *)
LEMMA ReadsKeepInv ==
    ASSUME WebhookInv, NEW p \in Pull,
           Keys(p) \/ \E h \in Hook : Value(p, h) \/ ValueFails(p, h)
    PROVE  WebhookInv'
<1>1. /\ pull[p] \in Call /\ CallFits(pull[p]) /\ pull[p].step \in {"keys", "values"}
      /\ pull[p].deletes = {} /\ pull[p].waiting = {} /\ ~Over(p)
  BY DEF WebhookInv, TypeOK, CallFits, Keys, Value, ValueFails, Over
<1>2. /\ UNCHANGED <<registered, hooks, expired, due, requests, overlapped>>
      /\ faults' \in 0..MaxFaults /\ (faults' = 0 => faults = 0)
  <2>1. CASE Fault
    BY <2>1, FaultCounts DEF Keys, Value, ValueFails, WebhookInv
  <2>2. CASE ~Fault
    BY <2>2 DEF Keys, Value, ValueFails, WebhookInv, TypeOK
  <2> QED
    BY <2>1, <2>2
<1>3. ~overlapped /\ faults = 0 => \A h \in pull[p].unread \cup pull[p].found : requests[h] = 0
  BY <1>1 DEF WebhookInv, OneAfterTheOther, Call
<1>4. CASE Keys(p)
  <2> DEFINE c == [pull[p] EXCEPT !.step = "values", !.unread = hooks]
  <2>1. /\ c \in Call /\ c.step = "values" /\ c.unread = hooks /\ c.found = pull[p].found
        /\ c.lost = pull[p].lost /\ c.deletes = {} /\ c.waiting = {} /\ c.mine = pull[p].mine
    BY <1>1 DEF Call, Steps, WebhookInv, TypeOK
  <2>2. pull' = [pull EXCEPT ![p] = c]
    BY <1>4 DEF Keys, WebhookInv, TypeOK
  <2> HIDE DEF c
  <2>3. CallFits(c)
    BY <1>1, <2>1 DEF CallFits, WebhookInv, TypeOK
  <2>4. ASSUME ~overlapped, faults = 0, NEW h \in hooks, requests[h] # 0
        PROVE  FALSE
    <3>1. PICK q \in Pull : h \in pull[q].deletes
      BY <2>4 DEF WebhookInv, OneAfterTheOther, TypeOK
    <3> QED
      BY <1>1, <2>4, <3>1 DEF WebhookInv, OneAfterTheOther, Over
  <2> QED
    BY <1>1, <1>2, <1>3, <2>1, <2>2, <2>3, <2>4, PullMoves
<1>5. ASSUME NEW h \in Hook, Value(p, h)
      PROVE  WebhookInv'
  <2> DEFINE found == IF h \in hooks THEN pull[p].found \cup {h} ELSE pull[p].found
             lost == IF h \in hooks THEN pull[p].lost ELSE pull[p].lost \cup {h}
             c == [pull[p] EXCEPT !.unread = @ \ {h}, !.found = found, !.lost = lost]
  <2>1. h \in pull[p].unread /\ pull[p].step = "values"
    BY <1>5 DEF Value
  <2>2. found \subseteq pull[p].found \cup {h} /\ lost \subseteq Hook /\ found \subseteq Hook
    BY <1>1 DEF Call
  <2>3. lost \cap hooks = {} /\ lost \subseteq pull[p].lost \cup {h}
    BY <1>1 DEF CallFits
  <2>4. pull' = [pull EXCEPT ![p] = c]
    BY <1>5 DEF Value, WebhookInv, TypeOK
  <2> HIDE DEF found, lost
  <2>5. /\ c \in Call /\ c.step = "values" /\ c.unread = pull[p].unread \ {h} /\ c.found = found
        /\ c.lost = lost /\ c.deletes = {} /\ c.waiting = {} /\ c.mine = pull[p].mine
    BY <1>1, <2>1, <2>2 DEF Call
  <2> HIDE DEF c
  <2>6. CallFits(c)
    BY <1>1, <2>1, <2>2, <2>3, <2>5 DEF CallFits
  <2>7. c.unread \cup c.found \subseteq pull[p].unread \cup pull[p].found
    BY <2>1, <2>2, <2>5
  <2> QED
    BY <1>1, <1>2, <1>3, <2>4, <2>5, <2>6, <2>7, PullMoves
<1>6. ASSUME NEW h \in Hook, ValueFails(p, h)
      PROVE  WebhookInv'
  <2> DEFINE c == [pull[p] EXCEPT !.unread = @ \ {h}, !.broken = TRUE]
  <2>1. /\ c \in Call /\ c.step = pull[p].step /\ c.unread = pull[p].unread \ {h}
        /\ c.found = pull[p].found /\ c.lost = pull[p].lost /\ c.deletes = {} /\ c.waiting = {}
        /\ c.mine = pull[p].mine
    BY <1>1 DEF Call
  <2>2. pull' = [pull EXCEPT ![p] = c]
    BY <1>6 DEF ValueFails, WebhookInv, TypeOK
  <2> HIDE DEF c
  <2>3. CallFits(c)
    BY <1>1, <2>1 DEF CallFits
  <2> QED
    BY <1>1, <1>2, <1>3, <2>1, <2>2, <2>3, PullMoves
<1> QED
  BY <1>4, <1>5, <1>6

(* The loop: a call that starts requests starts the deletions with them. *)
LEMMA LaunchKeepsInv ==
    ASSUME WebhookInv, NEW p \in Pull, Launch(p)
    PROVE  WebhookInv' /\ (NoDuplicateAlone => NoDuplicateAlone')
<1>1. /\ pull[p] \in Call /\ CallFits(pull[p]) /\ pull[p].step = "values"
      /\ pull[p].deletes = {} /\ pull[p].waiting = {} /\ ~Over(p)
  BY DEF WebhookInv, TypeOK, CallFits, Launch, Over
<1>2. PICK visited \in Visited(p) :
         Push(p, visited \cap (due \cup pull[p].lost), visited \cap pull[p].found \cap due \cap Callable)
  BY DEF Launch
<1> DEFINE ready == visited \cap (due \cup pull[p].lost)
           called == visited \cap pull[p].found \cap due \cap Callable
           step == IF pull[p].broken THEN "rejected" ELSE "deleting"
           c == [pull[p] EXCEPT !.step = step, !.deletes = ready, !.waiting = called, !.mine = called]
<1>3. visited \subseteq pull[p].found \cup pull[p].lost
  BY DEF Visited
<1>4. /\ pull' = [pull EXCEPT ![p] = c]
      /\ requests' = [h \in Hook |->
            IF h \in called /\ requests[h] < 2 THEN requests[h] + 1 ELSE requests[h]]
  BY <1>1, <1>2 DEF Push, WebhookInv, TypeOK
<1>5. UNCHANGED <<registered, hooks, expired, due, overlapped, faults>>
  BY DEF Launch
<1>6. /\ called \subseteq ready /\ ready \subseteq Hook /\ called \subseteq due
      /\ called \subseteq pull[p].found
      /\ ready \subseteq registered /\ step \in {"rejected", "deleting"}
      /\ ready \cap hooks \subseteq {h \in due : h \in Callable => h \in called}
  BY <1>1, <1>3 DEF CallFits, Call
<1> HIDE DEF ready, called, step
<1>7. /\ c \in Call /\ c.step = step /\ c.unread = pull[p].unread /\ c.found = pull[p].found
      /\ c.lost = pull[p].lost /\ c.deletes = ready /\ c.waiting = called /\ c.mine = called
  BY <1>1, <1>6 DEF Call, Steps
<1> HIDE DEF c
<1>8. pull' \in [Pull -> Call] /\ pull'[p] = c /\ \A q \in Pull : q # p => pull'[q] = pull[q]
  BY <1>4, <1>7 DEF WebhookInv, TypeOK
<1>9. /\ requests' \in [Hook -> 0..2]
      /\ \A h \in called : requests'[h] > 0
      /\ \A h \in Hook : requests[h] > 0 => requests'[h] > 0
      /\ \A h \in Hook \ called : requests'[h] = requests[h]
      /\ \A h \in called : requests[h] = 0 => requests'[h] = 1
  BY <1>4, <1>6 DEF WebhookInv, TypeOK
<1>10. TypeOK'
  BY <1>5, <1>8, <1>9 DEF WebhookInv, TypeOK
<1>11. ASSUME NEW q \in Pull
       PROVE  CallFits(pull[q])'
  <2>1. CASE q = p
    <3>1. /\ c.unread \cup c.found \cup c.lost \cup c.deletes \cup c.mine \subseteq registered
          /\ c.lost \cap hooks = {}
      BY <1>1, <1>6, <1>7 DEF CallFits
    <3>2. c.deletes \cap hooks \subseteq {h \in due : h \in Callable => requests'[h] > 0}
      BY <1>6, <1>7, <1>9
    <3> QED
      BY <1>5, <1>6, <1>7, <1>8, <2>1, <3>1, <3>2 DEF CallFits
  <2>2. CASE q # p
    <3>1. WorldMoves
      BY <1>5, <1>9 DEF WorldMoves
    <3>2. PICK d \in Call : d = pull[q] /\ CallFits(d)
      BY DEF WebhookInv, TypeOK
    <3>3. CallFits(d)'
      BY <1>10, <3>1, <3>2, FitsAsTheWorldMoves DEF WebhookInv
    <3> QED
      BY <1>8, <2>2, <3>2, <3>3
  <2> QED
    BY <2>1, <2>2
<1>12. (\A h \in Hook \ registered : h \notin hooks /\ requests[h] = 0)' /\ NotDueIsKept'
  BY <1>5, <1>6, <1>9 DEF WebhookInv, NotDueIsKept, TypeOK
<1>13. OneAfterTheOther'
  <2> SUFFICES ASSUME ~overlapped, faults = 0
               PROVE  /\ \A q, r \in Pull : q # r => Over(q)' \/ Over(r)'
                      /\ \A h \in hooks : requests'[h] > 0 => \E q \in Pull : h \in pull'[q].deletes
                      /\ \A q \in Pull, h \in Hook :
                            pull'[q].step \in {"keys", "values"} /\ h \in pull'[q].unread \cup pull'[q].found
                                => requests'[h] = 0
    BY <1>5 DEF OneAfterTheOther
  <2>1. \A q \in Pull : q # p => Over(q) /\ Over(q)'
    BY <1>1, <1>8 DEF WebhookInv, OneAfterTheOther, Over
  <2>2. ASSUME NEW h \in hooks, requests'[h] > 0
        PROVE  \E q \in Pull : h \in pull'[q].deletes
    <3>1. CASE h \in called
      BY <1>6, <1>7, <1>8, <3>1
    <3>2. CASE h \notin called
      <4>1. requests[h] > 0
        BY <1>9, <2>2, <3>2 DEF WebhookInv, TypeOK
      <4>2. PICK q \in Pull : h \in pull[q].deletes
        BY <4>1 DEF WebhookInv, OneAfterTheOther
      <4> QED
        BY <1>1, <1>8, <4>2
    <3> QED
      BY <3>1, <3>2
  <2>3. \A q \in Pull : pull'[q].step \notin {"keys", "values"}
    BY <1>6, <1>7, <1>8, <2>1 DEF Over
  <2> QED
    BY <2>1, <2>2, <2>3
<1>14. ASSUME NoDuplicateAlone
       PROVE  NoDuplicateAlone'
  <2>1. ~overlapped /\ faults = 0 => \A h \in called : requests[h] = 0
    BY <1>1, <1>6 DEF WebhookInv, OneAfterTheOther
  <2> QED
    BY <1>5, <1>9, <1>14, <2>1 DEF NoDuplicateAlone
<1> QED
  BY <1>10, <1>11, <1>12, <1>13, <1>14 DEF WebhookInv

(* What a pull awaits is answered or fails, or the pull is gone. *)
LEMMA AwaitedKeepsInv ==
    ASSUME WebhookInv, NEW p \in Pull,
           \/ Deleted(p) \/ Return(p) \/ Crash(p)
           \/ \E h \in Hook : Answer(p, h) \/ RequestFails(p, h)
    PROVE  WebhookInv'
<1>1. pull[p] \in Call /\ CallFits(pull[p]) /\ TypeOK
  BY DEF WebhookInv, TypeOK
<1>2. /\ UNCHANGED <<registered, hooks, expired, due, requests, overlapped>>
      /\ faults' \in 0..MaxFaults /\ (faults' = 0 => faults = 0)
  <2>1. CASE Fault
    BY <1>1, <2>1, FaultCounts DEF Deleted, Return, Crash, Answer, RequestFails
  <2>2. CASE ~Fault
    BY <1>1, <2>2 DEF Deleted, Return, Crash, Answer, RequestFails, TypeOK
  <2> QED
    BY <2>1, <2>2
<1>3. ~Over(p)
  BY DEF Deleted, Return, Crash, Answer, RequestFails, Over
<1>4. ~overlapped /\ faults = 0 /\ pull[p].step \in {"keys", "values"} =>
          \A h \in pull[p].unread \cup pull[p].found : requests[h] = 0
  BY <1>1 DEF WebhookInv, OneAfterTheOther, Call
<1>5. CASE Deleted(p)
  <2> DEFINE c == [pull[p] EXCEPT !.step = "requesting"]
  <2>1. /\ c \in Call /\ c.step = "requesting" /\ c.unread = pull[p].unread /\ c.found = pull[p].found
        /\ c.lost = pull[p].lost /\ c.deletes = pull[p].deletes /\ c.mine = pull[p].mine
    BY <1>1 DEF Call, Steps
  <2>2. pull' = [pull EXCEPT ![p] = c] /\ pull[p].step = "deleting" /\ pull[p].deletes = {}
    BY <1>1, <1>5 DEF Deleted, TypeOK
  <2> HIDE DEF c
  <2>3. CallFits(c)
    BY <1>1, <2>1, <2>2 DEF CallFits
  <2> QED
    BY <1>2, <1>3, <2>1, <2>2, <2>3, PullMoves
<1>6. CASE Return(p)
  <2> DEFINE failed == pull[p].mine \ (pull[p].waiting \cup pull[p].answered)
             step == IF failed = {} THEN "resolved" ELSE "rejected"
             c == [pull[p] EXCEPT !.step = step]
  <2>1. /\ step \in {"resolved", "rejected"} /\ pull[p].step = "requesting"
        /\ step = "resolved" => pull[p].mine \subseteq pull[p].answered
    BY <1>6 DEF Return
  <2>2. pull' = [pull EXCEPT ![p] = c]
    BY <1>1, <1>6 DEF Return, TypeOK
  <2> HIDE DEF step
  <2>3. /\ c \in Call /\ c.step = step /\ c.unread = pull[p].unread /\ c.found = pull[p].found
        /\ c.lost = pull[p].lost /\ c.deletes = pull[p].deletes /\ c.mine = pull[p].mine
        /\ c.answered = pull[p].answered
    BY <1>1, <2>1 DEF Call, Steps
  <2> HIDE DEF c
  <2>4. CallFits(c)
    BY <1>1, <2>1, <2>3 DEF CallFits
  <2> QED
    BY <1>2, <1>3, <2>1, <2>2, <2>3, <2>4, PullMoves
<1>7. CASE Crash(p)
  <2>1. /\ NoCall \in Call /\ NoCall.step = "idle" /\ NoCall.unread = {} /\ NoCall.found = {}
        /\ NoCall.lost = {} /\ NoCall.deletes = {} /\ NoCall.mine = {} /\ NoCall.waiting = {}
    BY DEF NoCall, Call, Steps
  <2>2. CallFits(NoCall)
    BY <2>1 DEF CallFits
  <2>3. faults' # 0 /\ pull' = [pull EXCEPT ![p] = NoCall]
    BY <1>1, <1>7, FaultCounts DEF Crash
  <2> QED
    BY <1>2, <1>3, <2>1, <2>2, <2>3, PullMoves
<1>8. ASSUME NEW h \in Hook, Answer(p, h)
      PROVE  WebhookInv'
  <2> DEFINE c == [pull[p] EXCEPT !.waiting = @ \ {h}, !.answered = @ \cup {h}]
  <2>1. /\ c \in Call /\ c.step = pull[p].step /\ c.unread = pull[p].unread /\ c.found = pull[p].found
        /\ c.lost = pull[p].lost /\ c.deletes = pull[p].deletes /\ c.mine = pull[p].mine
        /\ c.answered = pull[p].answered \cup {h} /\ c.waiting = pull[p].waiting \ {h}
    BY <1>1 DEF Call
  <2>2. pull' = [pull EXCEPT ![p] = c]
    BY <1>1, <1>8 DEF Answer, TypeOK
  <2> HIDE DEF c
  <2>3. CallFits(c)
    BY <1>1, <2>1 DEF CallFits
  <2> QED
    BY <1>2, <1>3, <1>4, <2>1, <2>2, <2>3, PullMoves
<1>9. ASSUME NEW h \in Hook, RequestFails(p, h)
      PROVE  WebhookInv'
  <2> DEFINE c == [pull[p] EXCEPT !.waiting = @ \ {h}]
  <2>1. /\ c \in Call /\ c.step = pull[p].step /\ c.unread = pull[p].unread /\ c.found = pull[p].found
        /\ c.lost = pull[p].lost /\ c.deletes = pull[p].deletes /\ c.mine = pull[p].mine
        /\ c.answered = pull[p].answered /\ c.waiting = pull[p].waiting \ {h}
    BY <1>1 DEF Call
  <2>2. pull' = [pull EXCEPT ![p] = c]
    BY <1>1, <1>9 DEF RequestFails, TypeOK
  <2> HIDE DEF c
  <2>3. CallFits(c)
    BY <1>1, <2>1 DEF CallFits
  <2> QED
    BY <1>2, <1>3, <1>4, <2>1, <2>2, <2>3, PullMoves
<1> QED
  BY <1>5, <1>6, <1>7, <1>8, <1>9

(***************************************************************************)
(* The theorems.                                                           *)
(***************************************************************************)
LEMMA InitHasInv == Init => WebhookInv
<1> SUFFICES ASSUME Init PROVE WebhookInv
  OBVIOUS
<1>1. /\ NoCall \in Call /\ NoCall.step = "idle" /\ NoCall.unread = {} /\ NoCall.found = {}
      /\ NoCall.lost = {} /\ NoCall.deletes = {} /\ NoCall.mine = {} /\ NoCall.waiting = {}
  BY DEF NoCall, Call, Steps
<1>2. \A p \in Pull : pull[p] = NoCall
  BY DEF Init
<1>3. TypeOK
  <2>1. pull \in [Pull -> Call]
    BY <1>1 DEF Init
  <2>2. faults \in 0..MaxFaults
    BY WebhookAssumption DEF Init
  <2>3. requests \in [Hook -> 0..2]
    BY DEF Init
  <2>4. /\ registered \subseteq Hook /\ hooks \subseteq Hook /\ expired \subseteq Hook
        /\ due \subseteq Hook /\ overlapped \in BOOLEAN
    BY DEF Init
  <2> QED
    BY <2>1, <2>2, <2>3, <2>4 DEF TypeOK
<1>4. \A p \in Pull : CallFits(pull[p])
  BY <1>1, <1>2 DEF CallFits
<1>5. NotDueIsKept /\ \A h \in Hook \ registered : h \notin hooks /\ requests[h] = 0
  BY DEF Init, NotDueIsKept
<1>6. OneAfterTheOther
  BY <1>1, <1>2 DEF Init, OneAfterTheOther, Over
<1> QED
  BY <1>3, <1>4, <1>5, <1>6 DEF WebhookInv

LEMMA NextKeepsInv == WebhookInv /\ [Next]_vars => WebhookInv'
<1> SUFFICES ASSUME WebhookInv, [Next]_vars PROVE WebhookInv'
  OBVIOUS
<1>1. CASE \E h \in Hook : Register(h) \/ FallDue(h) \/ Expire(h)
  BY <1>1, HooksComeAndGo
<1>2. CASE \E p \in Pull : Begin(p)
  BY <1>2, BeginKeepsInv
<1>3. CASE \E p \in Pull : Launch(p)
  BY <1>3, LaunchKeepsInv
<1>4. CASE \E p \in Pull : Keys(p) \/ \E h \in Hook : Value(p, h) \/ ValueFails(p, h)
  BY <1>4, ReadsKeepInv
<1>5. CASE \E p \in Pull, h \in Hook : Delete(p, h) \/ DeleteFails(p, h)
  BY <1>5, DeletionsKeepInv
<1>6. CASE \E p \in Pull : \/ Deleted(p) \/ Return(p) \/ Crash(p)
                           \/ \E h \in Hook : Answer(p, h) \/ RequestFails(p, h)
  BY <1>6, AwaitedKeepsInv
<1>7. CASE UNCHANGED vars
  BY <1>7 DEF vars, WebhookInv, TypeOK, CallFits, NotDueIsKept, OneAfterTheOther, Over
<1> QED
  BY <1>1, <1>2, <1>3, <1>4, <1>5, <1>6, <1>7 DEF Next, Advance

(* Whatever pulls, redelivered messages, failures and crashes do, calls know
   registered hooks only, delete what was due and requested, and leave alone
   what is not due.                                                        *)
THEOREM WebhookInvariant == Spec => []WebhookInv
  BY InitHasInv, NextKeepsInv, PTL DEF Spec

(* pullHook resolves, and its message leaves the queue, only when every hook it
   requested has answered and is gone from Redis.                          *)
THEOREM ResolvedMeansDone == Spec => []ResolvedIsDone
<1>1. WebhookInv => ResolvedIsDone
  BY DEF WebhookInv, ResolvedIsDone, CallFits
<1> QED
  BY <1>1, WebhookInvariant, PTL

(* A callable hook that left Redis before its time had been requested. *)
THEOREM NoHookIsLostUnasked == Spec => []RemovedWasRequested
<1>1. Init => RemovedWasRequested
  BY DEF Init, RemovedWasRequested
<1>2. WebhookInv /\ RemovedWasRequested /\ [Next]_vars => RemovedWasRequested'
  <2> SUFFICES ASSUME WebhookInv, RemovedWasRequested, [Next]_vars
               PROVE  RemovedWasRequested'
    OBVIOUS
  <2>1. CASE \E h \in Hook : Register(h) \/ FallDue(h) \/ Expire(h)
    BY <2>1 DEF RemovedWasRequested, Register, FallDue, Expire
  <2>2. CASE \E p \in Pull, h \in Hook : Delete(p, h) \/ DeleteFails(p, h)
    <3>1. PICK p \in Pull, h \in Hook : Delete(p, h) \/ DeleteFails(p, h)
      BY <2>2
    <3>2. h \in hooks /\ h \in Callable => requests[h] > 0
      BY <3>1 DEF WebhookInv, CallFits, Delete, DeleteFails
    <3> QED
      BY <3>1, <3>2 DEF RemovedWasRequested, Delete, DeleteFails
  <2>3. CASE \E p \in Pull : Launch(p)
    BY <2>3 DEF RemovedWasRequested, Launch, Push, WebhookInv, TypeOK
  <2>4. CASE UNCHANGED <<registered, hooks, expired, requests>>
    BY <2>4 DEF RemovedWasRequested
  <2> QED
    BY <2>1, <2>2, <2>3, <2>4
    DEF Next, Advance, vars, Begin, Keys, Value, ValueFails, Deleted, Return, Crash, Answer, RequestFails
<1> QED
  BY <1>1, <1>2, WebhookInvariant, PTL DEF Spec

(* A hook is requested twice only if pulls overlapped or something failed. *)
THEOREM AloneNothingIsRequestedTwice == Spec => []NoDuplicateAlone
<1>1. Init => NoDuplicateAlone
  BY DEF Init, NoDuplicateAlone
<1>2. WebhookInv /\ NoDuplicateAlone /\ [Next]_vars => NoDuplicateAlone'
  <2> SUFFICES ASSUME WebhookInv, NoDuplicateAlone, [Next]_vars
               PROVE  NoDuplicateAlone'
    OBVIOUS
  <2>1. CASE \E p \in Pull : Launch(p)
    BY <2>1, LaunchKeepsInv
  <2>2. ASSUME UNCHANGED requests, ~overlapped' => ~overlapped, faults' = 0 => faults = 0
        PROVE  NoDuplicateAlone'
    BY <2>2 DEF NoDuplicateAlone
  <2>3. Fault => faults' # 0
    BY FaultCounts DEF WebhookInv
  <2>4. CASE \E p \in Pull : Begin(p)
    BY <2>2, <2>4 DEF Begin, WebhookInv, TypeOK
  <2>5. CASE \E h \in Hook : Register(h) \/ FallDue(h) \/ Expire(h)
    BY <2>2, <2>5 DEF Register, FallDue, Expire
  <2>6. CASE \E p \in Pull, h \in Hook :
                Value(p, h) \/ ValueFails(p, h) \/ Delete(p, h) \/ DeleteFails(p, h)
                \/ Answer(p, h) \/ RequestFails(p, h)
    BY <2>2, <2>3, <2>6 DEF Value, ValueFails, Delete, DeleteFails, Answer, RequestFails
  <2>7. CASE \E p \in Pull : Keys(p) \/ Deleted(p) \/ Return(p) \/ Crash(p)
    BY <2>2, <2>3, <2>7 DEF Keys, Deleted, Return, Crash
  <2>8. CASE UNCHANGED vars
    BY <2>2, <2>8 DEF vars
  <2> QED
    BY <2>1, <2>4, <2>5, <2>6, <2>7, <2>8 DEF Next, Advance
<1> QED
  BY <1>1, <1>2, WebhookInvariant, PTL DEF Spec
=============================================================================
