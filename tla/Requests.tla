------------------------------ MODULE Requests ------------------------------
(***************************************************************************)
(* The way of a request, or of a socket's event, to its handler and back:  *)
(* CustomThrottlerGuard counts it under each of its throttlers, awaiting   *)
(* the storage each time, so that requests interleave; the other guards    *)
(* and the pipes run; the handler answers or throws; a filter turns what   *)
(* was thrown into an answer.  Handlers are modelled by what they can      *)
(* throw (their own modules have the rest), time by windows that end.      *)
(***************************************************************************)
EXTENDS Integers, Sequences, FiniteSets, TLC, Errors

CONSTANTS
    Client,     \* addresses of HTTP clients, ids of sockets
    N,          \* how many requests there are, at most
    Traffic,    \* what they may be, in the order of arrival: sequences of Call
    GlobalThrottlers,   \* the throttlers the module is configured with, in order
    Limit               \* the limit of each throttler

Request == 1 .. N

(***************************************************************************)
(* The endpoints: their context, whether AuthGuard is on them, whether     *)
(* they have the filter (and ResponseInterceptor) of the other             *)
(* controllers, what an invalid input throws and what the handler may.     *)
(***************************************************************************)

Http(auth, rejects, throws) ==
    [context |-> "http", auth |-> auth, filtered |-> TRUE, rejects |-> rejects, throws |-> throws]

Of(kinds) == {Exception(k) : k \in kinds}

UserController ==
    [listUsers  |-> Http(TRUE, Exception("contract"), Of({"internal"})),
     createUser |-> Http(TRUE, Exception("contract"), Of({"unauthorized", "conflict", "internal"})),
     loginUser  |-> Http(FALSE, Exception("contract"), Of({"unauthorized"})),
     getUser    |-> Http(TRUE, Framework(400), Of({"unauthorized", "internal"})),
     updateUser |-> Http(TRUE, Exception("contract"), Of({"unauthorized", "business", "internal"})),
     deleteUser |-> Http(TRUE, Framework(400), Of({"unauthorized", "business", "internal"}))]

HookController == [registerEventHook |-> Http(TRUE, Exception("contract"), {Plain})]

FileController ==
    [downloadFile |-> Http(TRUE, Framework(400), Of({"internal"})),
     uploadFile   |-> Http(TRUE, Framework(400), Of({"internal"}))]

SubscriptionController == [listSubscriptions |-> Http(TRUE, Framework(400), {Plain})]

HealthController == [healthCheck |-> Http(FALSE, Framework(400), {}),
                     healthCheckV1 |-> Http(FALSE, Framework(400), {})]

(* Errors while it streams are data of the stream. *)
ServerEventsController ==
    [getSubscription |-> [Http(FALSE, Framework(400), {}) EXCEPT !.filtered = FALSE]]

WebSocketServer ==
    [reconnect |-> [context |-> "ws", auth |-> FALSE, filtered |-> TRUE, rejects |-> Plain,
                    throws |-> {Exception("conflict"), Plain}]]

Controllers == <<UserController, HookController, FileController, SubscriptionController,
                 HealthController, ServerEventsController, WebSocketServer>>

Endpoint == UNION {DOMAIN Controllers[i] : i \in DOMAIN Controllers}

Route == [e \in Endpoint |->
    LET i == CHOOSE j \in DOMAIN Controllers : e \in DOMAIN Controllers[j]
    IN  Controllers[i][e]]

Throttler == {GlobalThrottlers[i] : i \in DOMAIN GlobalThrottlers} \cup {"login"}

CustomThrottlers(e) == IF e = "loginUser" THEN <<"login">> ELSE <<>>

Throttlers(e) == GlobalThrottlers \o CustomThrottlers(e)

(* token: what the authorization header bears; valid: whether the schema of
   the endpoint, or EventsGuard, accepts the input.                        *)
Token == {"none", "genuine", "expired", "forged"}

Call == [client : Client, endpoint : Endpoint, token : Token, valid : BOOLEAN]

Key == Throttler \X Client \X Endpoint

(* Mutant of generateKey: nothing of the client in the key. *)
KeyOfAll(t, c) == <<t, CHOOSE d \in Client : TRUE, c.endpoint>>

generateKey(t, c) == <<t, c.client, c.endpoint>>

ASSUME CallsAssumption == 
    /\ N \in Nat
    /\ Traffic \subseteq {s \in Seq(Call) : Len(s) <= N}
ASSUME LimitAssumption ==
    /\ GlobalThrottlers \in Seq(STRING)
    /\ Limit \in [Throttler -> Nat \ {0}]

VARIABLES
    call,           \* the requests there will be, one of Traffic
    step,           \* where each request is
    passed,         \* how many of its throttlers let it through
    answer,         \* what it was answered
    hits,           \* pairs of a key and a request it counted, the window not over
    blocked,        \* the keys whose blockDuration runs
    admitted,       \* history: those of them, if any, that were let through
    disabled,       \* history: the last value DISABLE_LOGIN was emitted with
    loginDisabled   \* the field of the controller that serves a login

vars == <<call, step, passed, answer, hits, blocked, admitted, disabled, loginDisabled>>
login == <<disabled, loginDisabled>>
storage == <<hits, blocked, admitted>>

None == Answer(0, "none")
Ok == Answer(200, "none")

Init ==
    /\ call \in Traffic
    /\ step = [r \in Request |-> "unsent"]
    /\ passed = [r \in Request |-> 0]
    /\ answer = [r \in Request |-> None]
    /\ hits = {}
    /\ blocked = {}
    /\ admitted = {}
    /\ disabled = FALSE
    /\ loginDisabled = FALSE

Send(r) ==
    /\ step[r] = "unsent"
    /\ r \in DOMAIN call /\ \A q \in Request : q < r => step[q] # "unsent"
    /\ step' = [step EXCEPT ![r] = "counting"]
    /\ UNCHANGED <<call, passed, answer, storage, login>>

(* The filter of the endpoint answers what was thrown. *)
Throw(r, e, last) ==
    LET route == Route[call[r].endpoint]
    IN  /\ step' = [step EXCEPT ![r] = last]
        /\ answer' = [answer EXCEPT ![r] =
              CASE ~route.filtered       -> DefaultExceptionsFilter(e)
                [] route.context = "ws"  -> WebSocketExceptionsFilter(e)
                [] OTHER                 -> HttpExceptionsFilter(e)]

(* The storage counts the hit, unless the key is blocked already, and blocks
   the key when the count exceeds the limit.                               *)
In(window, k) == {r \in Request : <<k, r>> \in window}

Increment(k, r) ==
    /\ hits' = IF k \in blocked THEN hits ELSE hits \cup {<<k, r>>}
    /\ blocked' = IF Cardinality(In(hits', k)) > Limit[k[1]] THEN blocked \cup {k} ELSE blocked

(* One round of the guard's loop: at the first throttler that blocks the
   request it throws, and the later ones never count it.                   *)
NextKey(r) == generateKey(Throttlers(call[r].endpoint)[passed[r] + 1], call[r])

(* Mutant of Count: the check reads the storage, the count comes after. *)
CountAfter(r) ==
    /\ step[r] = "counting"
    /\ passed[r] < Len(Throttlers(call[r].endpoint))
    /\ Increment(NextKey(r), r)
    /\ IF NextKey(r) \in blocked
       THEN Throw(r, Exception("manyRequests"), "refused") /\ UNCHANGED <<passed, admitted>>
       ELSE /\ passed' = [passed EXCEPT ![r] = @ + 1]
            /\ admitted' = admitted \cup {<<NextKey(r), r>>}
            /\ UNCHANGED <<step, answer>>
    /\ UNCHANGED <<call, login>>

(* Mutant of Count: the first request of a client is not worth counting. *)
CountSkips(r) ==
    /\ step[r] = "counting"
    /\ passed[r] < Len(Throttlers(call[r].endpoint))
    /\ IF In(hits, NextKey(r)) = {} THEN UNCHANGED <<hits, blocked>> ELSE Increment(NextKey(r), r)
    /\ IF NextKey(r) \in blocked'
       THEN Throw(r, Exception("manyRequests"), "refused") /\ UNCHANGED <<passed, admitted>>
       ELSE /\ passed' = [passed EXCEPT ![r] = @ + 1]
            /\ admitted' = admitted \cup {<<NextKey(r), r>>}
            /\ UNCHANGED <<step, answer>>
    /\ UNCHANGED <<call, login>>

(* Mutant of Count: a blocked request waits. *)
CountWaits(r) ==
    /\ step[r] = "counting"
    /\ passed[r] < Len(Throttlers(call[r].endpoint))
    /\ Increment(NextKey(r), r)
    /\ NextKey(r) \notin blocked'
    /\ passed' = [passed EXCEPT ![r] = @ + 1]
    /\ admitted' = admitted \cup {<<NextKey(r), r>>}
    /\ UNCHANGED <<call, step, answer, login>>

Count(r) ==
    /\ step[r] = "counting"
    /\ passed[r] < Len(Throttlers(call[r].endpoint))
    /\ Increment(NextKey(r), r)
    /\ IF NextKey(r) \in blocked'
       THEN Throw(r, Exception("manyRequests"), "refused") /\ UNCHANGED <<passed, admitted>>
       ELSE /\ passed' = [passed EXCEPT ![r] = @ + 1]
            /\ admitted' = admitted \cup {<<NextKey(r), r>>}
            /\ UNCHANGED <<step, answer>>
    /\ UNCHANGED <<call, login>>

(* A hit's ttl is over.  Which one's is left open: only how many are in the
   window decides.                                                         *)
Expire(h) ==
    /\ hits' = hits \ {h}
    /\ admitted' = admitted \ {h}
    /\ UNCHANGED <<call, step, passed, answer, blocked, login>>

(* A blockDuration is over, and the count starts again from 0.  Each is
   longer than its ttl: no window is open by then.                         *)
Unblock(k) ==
    /\ k \in blocked
    /\ In(hits \cup admitted, k) = {}
    /\ blocked' = blocked \ {k}
    /\ UNCHANGED <<call, step, passed, answer, hits, admitted, login>>

(* The content of a token whose signature and age verify, or none. *)
decodeJwt(token) == IF token = "genuine" THEN {token} ELSE {}

AuthGuard(c) ==
    IF c.token = "none" \/ decodeJwt(c.token) = {} THEN {Exception("invalidToken")} ELSE {}

EventsGuard(c) == IF c.valid THEN {} ELSE {Wrapped(Exception("internal"))}

validate(c) == IF c.valid THEN {} ELSE {Route[c.endpoint].rejects}

loginUser == IF loginDisabled THEN {Exception("integration")} ELSE {}

(* What follows the throttlers, without another request in between that
   could matter: the other guard, the pipes and the start of the handler;
   the first that throws ends it.                                          *)
Refusal(c) ==
    LET route == Route[c.endpoint]
        stages == <<IF route.auth THEN AuthGuard(c) ELSE {},
                    IF route.context = "ws" THEN EventsGuard(c) ELSE validate(c),
                    IF c.endpoint = "loginUser" THEN loginUser ELSE {}>>
        throws == {i \in DOMAIN stages : stages[i] # {}}
    IN  UNION {stages[i] : i \in {j \in throws : \A k \in throws : j <= k}}

Admit(r) ==
    /\ step[r] = "counting"
    /\ passed[r] = Len(Throttlers(call[r].endpoint))
    /\ IF Refusal(call[r]) = {}
       THEN step' = [step EXCEPT ![r] = "handling"] /\ UNCHANGED answer
       ELSE \E e \in Refusal(call[r]) : Throw(r, e, "answered")
    /\ UNCHANGED <<call, passed, storage, login>>

Finish(r) ==
    /\ step[r] = "handling"
    /\ \/ /\ step' = [step EXCEPT ![r] = "answered"]
          /\ answer' = [answer EXCEPT ![r] = Ok]
       \/ \E e \in Route[call[r].endpoint].throws : Throw(r, e, "answered")
    /\ UNCHANGED <<call, passed, storage, login>>

(* A controller behind the request scoped ResponseInterceptor is built anew
   for each request: the constructor clears loginDisabled, and onModuleInit,
   which listens to DISABLE_LOGIN, runs only for what is built at boot.    *)
RequestScoped(e) == Route[e].context = "http" /\ Route[e].filtered

DisableLogin(disable) ==
    /\ disable # disabled
    /\ disabled' = disable
    /\ loginDisabled' = (~RequestScoped("loginUser") /\ disable)
    /\ UNCHANGED <<call, step, passed, answer, storage>>

Advance(r) == Count(r) \/ Admit(r) \/ Finish(r)

Next ==
    \/ \E r \in Request : Send(r) \/ Advance(r)
    \/ \E h \in hits \cup admitted : Expire(h)
    \/ \E k \in blocked : Unblock(k)
    \/ \E disable \in BOOLEAN : DisableLogin(disable)

Spec == Init /\ [][Next]_vars

(* A request that was taken in goes on: the storage and the services that
   handlers await answer or fail.                                          *)
FairSpec == Spec /\ \A r \in Request : WF_vars(Advance(r))

(***************************************************************************)
(* Properties.                                                             *)
(***************************************************************************)

Same(q, r) == call[q].client = call[r].client /\ call[q].endpoint = call[r].endpoint

TypeOK ==
    /\ call \in Seq(Call) /\ Len(call) <= N
    /\ step \in [Request -> {"unsent", "counting", "refused", "handling", "answered"}]
    /\ passed \in [Request -> Nat]
    /\ hits \subseteq Key \X Request
    /\ blocked \subseteq Key
    /\ admitted \subseteq Key \X Request
    /\ \A r \in Request :
           IF step[r] = "unsent" THEN passed[r] = 0
           ELSE r \in DOMAIN call /\ passed[r] <= Len(Throttlers(call[r].endpoint))

(* What keeps the limits: whatever a throttler let through is still counted,
   and a key whose count exceeds the limit is blocked.                     *)
Counted ==
    /\ admitted \subseteq hits
    /\ \A k \in Key \ blocked : Cardinality(In(hits, k)) <= Limit[k[1]]

(* The invariant the theorems rest on: state well typed and counts right. *)
RequestsInv == TypeOK /\ Counted

(* However the requests of a client interleave between the throttlers, none
   lets more than its limit through to one endpoint within its window.     *)
WithinLimit == \A h \in admitted : Cardinality(In(admitted, h[1])) <= Limit[h[1][1]]

(* A client is refused for what it did itself: "Too Many Requests" is for
   one that has sent more to this endpoint than some throttler's limit.    *)
RefusedWereOver ==
    \A r \in Request : step[r] = "refused" =>
        \E t \in Throttler :
            Cardinality({q \in Request : step[q] # "unsent" /\ Same(q, r)}) > Limit[t]

(* No failure of the server's passes unnoticed: where a filter answers 500
   or more, Sentry was told as an error or worse; and no flood of refused
   requests and bad tokens floods Sentry.                                  *)
ErrorsAreReported ==
    \A r \in DOMAIN call : Route[call[r].endpoint].filtered =>
        /\ answer[r].status >= 500 => answer[r].severity \in {"error", "fatal"}
        /\ answer[r].status \in {429, 498} => answer[r].severity = "none"

(* Every request taken in is answered, whatever the throttlers, guards,
   pipes and handler do with it.                                           *)
EveryRequestEnds ==
    \A r \in Request : step[r] = "counting" ~> step[r] \in {"refused", "answered"}

(* "Gracefull degradation": while DISABLE_LOGIN is in force, no login is
   handed to the use case.                                                 *)
DisabledLoginIsRefused ==
    [][\A r \in Request :
          disabled /\ step[r] = "counting" /\ call[r].endpoint = "loginUser" => step'[r] # "handling"]_vars
=============================================================================
