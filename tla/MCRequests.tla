----------------------------- MODULE MCRequests -----------------------------
EXTENDS Requests

CONSTANTS c1, c2

(* One of the three global ones beside that of the login: a client passes the
   first again when its window is over, and is still counted by the second. *)
MCThrottlers == <<"short">>

MCLimit == [t \in Throttler |-> IF t = "short" THEN 1 ELSE 2]

A(client, endpoint, token, valid) ==
    [client |-> client, endpoint |-> endpoint, token |-> token, valid |-> valid]

LoginOf(c) == A(c, "loginUser", "none", TRUE)

(* Three logins of two clients; and each other kind of endpoint, guard, pipe
   and filter, twice: enough to exceed the limit of short.                 *)
Others ==
    {A(c1, "loginUser", "none", FALSE), A(c1, "createUser", "genuine", TRUE), A(c1, "createUser", "expired", TRUE),
     A(c1, "updateUser", "genuine", FALSE), A(c1, "registerEventHook", "genuine", TRUE),
     A(c1, "downloadFile", "genuine", TRUE), A(c1, "getSubscription", "none", TRUE),
     A(c1, "reconnect", "none", TRUE), A(c1, "reconnect", "none", FALSE)}

LoginTraffic == {<<LoginOf(c1), LoginOf(c), LoginOf(d)>> : c, d \in {c1, c2}}

MCTraffic == LoginTraffic \cup {<<o, o>> : o \in Others}
=============================================================================
