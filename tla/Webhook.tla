------------------------------ MODULE Webhook ------------------------------
(***************************************************************************)
(* Webhooks.  PUT /hook registers a hook for an event in Redis; the        *)
(* handler of a NEW_HOOK queue message calls WebhookService.pullHook,      *)
(* which requests every hook that is due and deletes it.  Pulls overlap:   *)
(* several instances, redelivered messages (EventsQueue).                  *)
(* All hooks here are registered for one event.                            *)
(***************************************************************************)
EXTENDS Naturals, FiniteSets

CONSTANTS
    Hook,         \* hook ids (uuids)
    Callable,     \* hooks registered with a responseMethod
    Later,        \* hooks registered with a sendAt in the future
    Pull,         \* bound: pullHook calls in progress at one time
    MaxFaults     \* bound: failed calls and crashes in a behaviour

ASSUME WebhookAssumption ==
    /\ Callable \subseteq Hook
    /\ Later \subseteq Hook
    /\ MaxFaults \in Nat

VARIABLES
    registered,   \* hooks that were saved
    hooks,        \* hooks whose key is in Redis
    expired,      \* hooks whose time to live passed
    due,          \* hooks whose sendAt has passed
    pull,         \* pull[p]: the call p executes
    requests,     \* requests[h]: how often h was requested: 0, 1, or 2 for more
    overlapped,   \* two pulls have been in progress together
    faults        \* faults so far

vars == <<registered, hooks, expired, due, pull, requests, overlapped, faults>>

Steps == {"idle", "keys", "values", "deleting", "requesting", "resolved", "rejected"}

(* unread: keys whose value was not fetched; found: hooks whose value came;
   lost: keys whose value was gone; broken: a value could not be fetched;
   deletes, waiting: redis and http calls not answered; mine: hooks the call
   requested; answered: those the receiver answered.                       *)
Call == [step : Steps, unread : SUBSET Hook, found : SUBSET Hook, lost : SUBSET Hook,
         broken : BOOLEAN, deletes : SUBSET Hook, waiting : SUBSET Hook,
         mine : SUBSET Hook, answered : SUBSET Hook]

NoCall == [step |-> "idle", unread |-> {}, found |-> {}, lost |-> {}, broken |-> FALSE,
           deletes |-> {}, waiting |-> {}, mine |-> {}, answered |-> {}]

TypeOK ==
    /\ registered \subseteq Hook
    /\ hooks \subseteq Hook
    /\ expired \subseteq Hook
    /\ due \subseteq Hook
    /\ pull \in [Pull -> Call]
    /\ requests \in [Hook -> 0..2]
    /\ overlapped \in BOOLEAN
    /\ faults \in 0..MaxFaults

Init ==
    /\ registered = {}
    /\ hooks = {}
    /\ expired = {}
    /\ due = Hook \ Later
    /\ pull = [p \in Pull |-> NoCall]
    /\ requests = [h \in Hook |-> 0]
    /\ overlapped = FALSE
    /\ faults = 0

Fault == faults < MaxFaults /\ faults' = faults + 1

(* The call p has nothing left to do, in the background either. *)
Over(p) == /\ pull[p].step \in {"idle", "resolved", "rejected"}
           /\ pull[p].deletes \cup pull[p].waiting = {}

(***************************************************************************)
(* Hooks come, fall due and expire.                                        *)
(***************************************************************************)
Register(h) ==
    /\ h \notin registered
    /\ registered' = registered \cup {h}
    /\ hooks' = hooks \cup {h}
    /\ UNCHANGED <<expired, due, pull, requests, overlapped, faults>>

FallDue(h) ==
    /\ due' = due \cup {h}
    /\ UNCHANGED <<registered, hooks, expired, pull, requests, overlapped, faults>>

Expire(h) ==
    /\ h \in hooks
    /\ hooks' = hooks \ {h}
    /\ expired' = expired \cup {h}
    /\ UNCHANGED <<registered, due, pull, requests, overlapped, faults>>

(***************************************************************************)
(* pullHook.  list() asks Redis for the keys, then for each value.         *)
(***************************************************************************)
Begin(p) ==
    /\ Over(p)
    /\ pull' = [pull EXCEPT ![p] = [NoCall EXCEPT !.step = "keys"]]
    /\ overlapped' = (overlapped \/ \E q \in Pull \ {p} : ~Over(q))
    /\ UNCHANGED <<registered, hooks, expired, due, requests, faults>>

Keys(p) ==
    /\ pull[p].step = "keys"
    /\ pull' = [pull EXCEPT ![p].step = "values", ![p].unread = hooks]
    /\ UNCHANGED <<registered, hooks, expired, due, requests, overlapped, faults>>

Value(p, h) ==
    /\ pull[p].step = "values"
    /\ h \in pull[p].unread
    /\ pull' = [pull EXCEPT ![p].unread = @ \ {h},
                            ![p].found = IF h \in hooks THEN @ \cup {h} ELSE @,
                            ![p].lost = IF h \in hooks THEN @ ELSE @ \cup {h}]
    /\ UNCHANGED <<registered, hooks, expired, due, requests, overlapped, faults>>

(* A get that throws yields an element without a key. *)
ValueFails(p, h) ==
    /\ pull[p].step = "values"
    /\ h \in pull[p].unread
    /\ Fault
    /\ pull' = [pull EXCEPT ![p].unread = @ \ {h}, ![p].broken = TRUE]
    /\ UNCHANGED <<registered, hooks, expired, due, requests, overlapped>>

(* The loop runs without a pause: over everything that was listed, or, when an
   element without a key makes it throw, over what happened to come before. *)
Visited(p) ==
    LET listed == pull[p].found \cup pull[p].lost
    IN  IF pull[p].broken THEN SUBSET listed ELSE {listed}

(* What the loop leaves behind: requests of called and deletions of ready. *)
Push(p, ready, called) ==
    /\ pull' = [pull EXCEPT ![p].step = IF pull[p].broken THEN "rejected" ELSE "deleting",
                            ![p].deletes = ready,
                            ![p].waiting = called,
                            ![p].mine = called]
    /\ requests' = [h \in Hook |->
          IF h \in called /\ requests[h] < 2 THEN requests[h] + 1 ELSE requests[h]]

(* Mutant of Launch: sendAt is compared the wrong way round. *)
LaunchEarly(p) ==
    /\ pull[p].step = "values" /\ pull[p].unread = {}
    /\ \E visited \in Visited(p) :
          Push(p, visited \ due, visited \cap (pull[p].found \ due) \cap Callable)
    /\ UNCHANGED <<registered, hooks, expired, due, overlapped, faults>>

(* Mutant of Launch: requests are left for when the deletions are answered. *)
LaunchDeletions(p) ==
    /\ pull[p].step = "values" /\ pull[p].unread = {}
    /\ \E visited \in Visited(p) : Push(p, visited \cap (due \cup pull[p].lost), {})
    /\ UNCHANGED <<registered, hooks, expired, due, overlapped, faults>>

(* A request for the callable hooks that are due, a deletion for what is due
   or has no value any more.                                               *)
Launch(p) ==
    /\ pull[p].step = "values"
    /\ pull[p].unread = {}
    /\ \E visited \in Visited(p) :
          Push(p, visited \cap (due \cup pull[p].lost),
                  visited \cap pull[p].found \cap due \cap Callable)
    /\ UNCHANGED <<registered, hooks, expired, due, overlapped, faults>>

(* Mutant of Delete: the hook id is taken from the key wrongly. *)
DeleteOther(p, h) ==
    /\ h \in pull[p].deletes
    /\ pull' = [pull EXCEPT ![p].deletes = @ \ {h}]
    /\ UNCHANGED <<registered, hooks, expired, due, requests, overlapped, faults>>

(* A deletion is answered, or throws and rejects a call that awaits it. *)
Delete(p, h) ==
    /\ h \in pull[p].deletes
    /\ hooks' = hooks \ {h}
    /\ pull' = [pull EXCEPT ![p].deletes = @ \ {h}]
    /\ UNCHANGED <<registered, expired, due, requests, overlapped, faults>>

DeleteFails(p, h) ==
    /\ h \in pull[p].deletes
    /\ Fault
    /\ hooks' = hooks \/ hooks' = hooks \ {h}
    /\ pull' = [pull EXCEPT ![p].deletes = @ \ {h},
                            ![p].step = IF @ = "deleting" THEN "rejected" ELSE @]
    /\ UNCHANGED <<registered, expired, due, requests, overlapped>>

(* await Promise.all(hooksToDelete) has returned: now the requests. *)
Deleted(p) ==
    /\ pull[p].step = "deleting"
    /\ pull[p].deletes = {}
    /\ pull' = [pull EXCEPT ![p].step = "requesting"]
    /\ UNCHANGED <<registered, hooks, expired, due, requests, overlapped, faults>>

(* The receiver answers a request; or the client gives up after its retries,
   and nobody will ask again.  A failure rejects the call when it comes to
   awaiting the requests, however early the request failed.                *)
Answer(p, h) ==
    /\ h \in pull[p].waiting
    /\ pull' = [pull EXCEPT ![p].waiting = @ \ {h}, ![p].answered = @ \cup {h}]
    /\ UNCHANGED <<registered, hooks, expired, due, requests, overlapped, faults>>

RequestFails(p, h) ==
    /\ h \in pull[p].waiting
    /\ Fault
    /\ pull' = [pull EXCEPT ![p].waiting = @ \ {h}]
    /\ UNCHANGED <<registered, hooks, expired, due, requests, overlapped>>

(* Mutant of Return: the requests are awaited with allSettled. *)
ReturnSettled(p) ==
    /\ pull[p].step = "requesting"
    /\ pull[p].waiting = {}
    /\ pull' = [pull EXCEPT ![p].step = "resolved"]
    /\ UNCHANGED <<registered, hooks, expired, due, requests, overlapped, faults>>

Return(p) ==
    /\ pull[p].step = "requesting"
    /\ LET failed == pull[p].mine \ (pull[p].waiting \cup pull[p].answered)
       IN  /\ failed # {} \/ pull[p].waiting = {}
           /\ pull' = [pull EXCEPT ![p].step = IF failed = {} THEN "resolved" ELSE "rejected"]
    /\ UNCHANGED <<registered, hooks, expired, due, requests, overlapped, faults>>

(* The instance dies or is closed: what it had started and not finished is
   lost, the message will be delivered again.                              *)
Crash(p) ==
    /\ ~Over(p)
    /\ Fault
    /\ pull' = [pull EXCEPT ![p] = NoCall]
    /\ UNCHANGED <<registered, hooks, expired, due, requests, overlapped>>

Advance(p) ==
    \/ Keys(p) \/ Launch(p) \/ Deleted(p) \/ Return(p)
    \/ \E h \in Hook : Value(p, h) \/ Delete(p, h) \/ Answer(p, h)

Next ==
    \/ \E h \in Hook : Register(h) \/ FallDue(h) \/ Expire(h)
    \/ \E p \in Pull : Begin(p) \/ Advance(p) \/ Crash(p)
    \/ \E p \in Pull, h \in Hook : ValueFails(p, h) \/ DeleteFails(p, h) \/ RequestFails(p, h)

Spec == Init /\ [][Next]_vars

(* What a pull awaits comes: calls to Redis and, with a timeout, to receivers. *)
FairSpec == Spec /\ \A p \in Pull : WF_vars(Advance(p))

(***************************************************************************)
(* Properties.                                                             *)
(***************************************************************************)

(* A hook that is not due is neither requested nor removed by any pull, in
   whatever order pulls read, delete and fail.                             *)
NotDueIsKept ==
    \A h \in registered \ (due \cup expired) : h \in hooks /\ requests[h] = 0

(* What a call may rely on: it knows registered hooks only; a value that was
   gone does not come back; what it deletes is due, and was requested if it
   can be, or is gone already; what it requested is gone once its deletions
   were answered.                                                          *)
CallFits(c) ==
    /\ c.unread \cup c.found \cup c.lost \cup c.deletes \cup c.mine \subseteq registered
    /\ c.lost \cap hooks = {}
    /\ c.deletes \cap hooks \subseteq {h \in due : h \in Callable => requests[h] > 0}
    /\ c.step = "deleting" => c.mine \cap hooks \subseteq c.deletes
    /\ c.step \in {"requesting", "resolved"} => c.mine \cap hooks = {}
    /\ c.step = "resolved" => c.mine \subseteq c.answered
    /\ c.step \in {"idle", "keys", "values"} => c.deletes \cup c.waiting = {}

(* While pulls came one after the other and nothing failed, a requested hook is
   gone or being deleted, and a pull that reads sees none of them.         *)
OneAfterTheOther ==
    ~overlapped /\ faults = 0 =>
        /\ \A p, q \in Pull : p # q => Over(p) \/ Over(q)
        /\ \A h \in hooks : requests[h] > 0 => \E p \in Pull : h \in pull[p].deletes
        /\ \A p \in Pull, h \in Hook :
              pull[p].step \in {"keys", "values"} /\ h \in pull[p].unread \cup pull[p].found
                  => requests[h] = 0

(* The invariant the theorems rest on: pulls know, delete and request what they
   may, hooks that are not due are left alone, and pulls that never overlap
   see nothing twice.                                                      *)
WebhookInv ==
    /\ TypeOK
    /\ \A p \in Pull : CallFits(pull[p])
    /\ \A h \in Hook \ registered : h \notin hooks /\ requests[h] = 0
    /\ NotDueIsKept
    /\ OneAfterTheOther

(* A hook does not disappear unasked: one that can be called and is gone from
   Redis before its time to live was requested by some pull.               *)
RemovedWasRequested ==
    \A h \in (registered \cap Callable) \ expired : h \in hooks \/ requests[h] > 0

(* A hook is requested twice only when two pulls overlapped or a call failed:
   one after the other, pulls never see a hook that was requested.         *)
NoDuplicateAlone ==
    ~overlapped /\ faults = 0 => \A h \in Hook : requests[h] <= 1

(* When pullHook resolves, and so its message is deleted from the queue, every
   hook it requested has answered and is no longer registered: a failure of
   any of them, also of one while the deletions were awaited, rejects.     *)
ResolvedIsDone ==
    \A p \in Pull : pull[p].step = "resolved" =>
        pull[p].mine \subseteq pull[p].answered /\ pull[p].mine \cap hooks = {}

(* A due hook that is registered when a pull begins is requested, when there
   is no failure or expiry any more.                                       *)
DueHookIsRequested ==
    \A h \in Callable :
        ((\E p \in Pull : pull[p].step = "keys") /\ h \in hooks \cap due /\ faults = MaxFaults)
            ~> (requests[h] > 0 \/ h \in expired)
=============================================================================
