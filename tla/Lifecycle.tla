----------------------------- MODULE Lifecycle -----------------------------
(***************************************************************************)
(* The life of one instance: its connections to the backing services, the  *)
(* cron job that checks and reopens them every five minutes, the switch of *)
(* the HTTP server, and the shutdown, which every signal starts twice: once*)
(* by Nest's own shutdown hooks and once by the handler that calls         *)
(* nestApp.close(); a failure nobody catches starts it once.               *)
(*                                                                         *)
(* External: the services themselves; ioredis, which reconnects by itself  *)
(* until quit(); the Mongo driver, which connects on first use, keeps its  *)
(* topology through an outage and refuses to connect by itself once closed;*)
(* TypeORM's DataSource and its pg pool, which ends once; Fastify, which   *)
(* cannot listen again once it was closed.                                 *)
(***************************************************************************)
EXTENDS Naturals, FiniteSets

CONSTANTS
    Chain,        \* bound: shutdowns in progress at one time
    Tick,         \* bound: cron runs in progress at one time
    Socket        \* websocket clients

ASSUME LifecycleAssumption == Chain # {} /\ Tick # {}

Services == {"database", "datalake", "cache"}

VARIABLES
    up,           \* up[x]: the server of service x answers
    database,     \* the DataSource: "initialized", "ending" (its pool drains), "destroyed"
    datalake,     \* mongoClient.isConnected
    used,         \* the Mongo client has not been closed
    cache,        \* ioredis status: "ready", "reconnecting", "quitting", "end"
    http,         \* "listening" or "closed"
    routes,       \* the last DISABLE_ALL_ROUTES: "enabled" or "disabled"
    serving,      \* cron job scheduled, queue consumer polling, websocket server open
    sockets,      \* connected websocket clients
    chain,        \* chain[c]: the step of shutdown c
    tick,         \* tick[t]: the step of cron run t and what it found active
    exited,       \* process.exit was called
    clean         \* history: nothing was in the way of the shutdown

connections == <<database, datalake, used, cache>>
vars == <<up, connections, http, routes, serving, sockets, chain, tick, exited, clean>>

ChainSteps == {"idle", "destroy", "cache", "quit", "datalake", "close", "database", "end", "exit"}
TickSteps == {"idle", "test", "initialize", "retest", "datalake", "cache"}
Run == [step : TickSteps, database : BOOLEAN, datalake : BOOLEAN, cache : BOOLEAN]

TypeOK ==
    /\ up \in [Services -> BOOLEAN]
    /\ database \in {"initialized", "ending", "destroyed"}
    /\ datalake \in BOOLEAN
    /\ used \in BOOLEAN
    /\ cache \in {"ready", "reconnecting", "quitting", "end"}
    /\ http \in {"listening", "closed"}
    /\ routes \in {"enabled", "disabled"}
    /\ serving \in BOOLEAN
    /\ sockets \subseteq Socket
    /\ chain \in [Chain -> ChainSteps]
    /\ tick \in [Tick -> Run]
    /\ exited \in BOOLEAN
    /\ clean \in BOOLEAN

NoRun == [step |-> "idle", database |-> FALSE, datalake |-> FALSE, cache |-> FALSE]

(* After bootstrap: the provider of the DataSource fails unless it connects,
   Redis connects by itself, Mongo does not connect.                       *)
Init ==
    /\ up = [x \in Services |-> TRUE]
    /\ database = "initialized" /\ datalake = FALSE /\ used = TRUE
    /\ cache = "ready"
    /\ http = "listening" /\ routes = "enabled" /\ serving = TRUE
    /\ sockets = {}
    /\ chain = [c \in Chain |-> "idle"]
    /\ tick = [t \in Tick |-> NoRun]
    /\ exited = FALSE
    /\ clean = TRUE

Closing == \E c \in Chain : chain[c] # "idle"
Destroyed == {c \in Chain : chain[c] \notin {"idle", "destroy"}}
InFlight == {t \in Tick : tick[t].step # "idle"}

(***************************************************************************)
(* The environment.                                                        *)
(***************************************************************************)
Outage(x) ==
    /\ up[x]
    /\ up' = [up EXCEPT ![x] = FALSE]
    /\ cache' = IF x = "cache" /\ cache = "ready" THEN "reconnecting" ELSE cache
    /\ clean' = (clean /\ ~Closing)
    /\ UNCHANGED <<database, datalake, used, http, routes, serving, sockets, chain, tick, exited>>

Recovery(x) ==
    /\ ~up[x]
    /\ up' = [up EXCEPT ![x] = TRUE]
    /\ UNCHANGED <<connections, http, routes, serving, sockets, chain, tick, exited, clean>>

(* ioredis reconnects by itself, as long as it was not told to quit. *)
Reconnect ==
    /\ ~exited
    /\ cache = "reconnecting" /\ up["cache"]
    /\ cache' = "ready"
    /\ UNCHANGED <<up, database, datalake, used, http, routes, serving, sockets, chain, tick, exited, clean>>

(* An operation on a collection connects the client, unless it was closed. *)
UseDatalake ==
    /\ ~exited
    /\ ~datalake /\ used /\ up["datalake"]
    /\ datalake' = TRUE
    /\ UNCHANGED <<up, database, used, cache, http, routes, serving, sockets, chain, tick, exited, clean>>

ConnectSocket(s) ==
    /\ ~exited
    /\ serving
    /\ s \notin sockets
    /\ sockets' = sockets \cup {s}
    /\ UNCHANGED <<up, connections, http, routes, serving, chain, tick, exited, clean>>

(***************************************************************************)
(* Shutdown.                                                               *)
(***************************************************************************)
AllConnected == database = "initialized" /\ datalake /\ cache = "ready"

(* clean: everything connected and reachable, no cron run in flight. *)
Close(cs) ==
    /\ ~exited
    /\ cs # {} /\ \A c \in cs : chain[c] = "idle"
    /\ chain' = [c \in Chain |-> IF c \in cs THEN "destroy" ELSE chain[c]]
    /\ clean' = (clean /\ (Closing \/ (AllConnected /\ InFlight = {} /\ \A x \in Services : up[x])))
    /\ UNCHANGED <<up, connections, http, serving, sockets, tick, exited>>

(* SIGINT, SIGQUIT, SIGABRT or SIGTERM. *)
Signal == (\E c, d \in Chain : Close({c, d})) /\ UNCHANGED routes

(* uncaughtException or unhandledRejection. *)
Uncaught == (\E c \in Chain : Close({c})) /\ UNCHANGED routes

(* Mutant of Destroy: the websocket clients are disconnected, the server not. *)
DestroyButServer(c) ==
    /\ ~exited
    /\ chain[c] = "destroy"
    /\ chain' = [chain EXCEPT ![c] = "cache"]
    /\ http' = "closed"
    /\ sockets' = {}
    /\ UNCHANGED <<up, connections, routes, serving, tick, exited, clean>>

(* onModuleDestroy is synchronous.  A run of the cron job in flight goes on.
   When another shutdown has run the hook, the cron job may be gone: stopCron
   then throws, and the rest is skipped.                                   *)
Destroy(c) ==
    /\ ~exited
    /\ chain[c] = "destroy"
    /\ chain' = [chain EXCEPT ![c] = "cache"]
    /\ \/ http' = "closed" /\ serving' = FALSE /\ sockets' = {}
       \/ Destroyed # {} /\ UNCHANGED <<http, serving, sockets>>
    /\ clean' = (clean /\ InFlight = {})
    /\ UNCHANGED <<up, connections, routes, tick, exited>>

Step(c, from, to) ==
    /\ ~exited
    /\ chain[c] = from
    /\ chain' = [chain EXCEPT ![c] = to]
    /\ UNCHANGED <<up, used, http, routes, serving, sockets, tick, clean>>

(* Mutant of QuitCache: quit() is sent and not awaited. *)
QuitAndGoOn(c) ==
    /\ Step(c, "cache", "datalake")
    /\ cache' = IF cache = "ready" THEN "quitting" ELSE cache
    /\ UNCHANGED <<database, datalake, exited>>

(* Mutant of QuitCache: quit() without asking isConnected() first. *)
QuitAlways(c) ==
    /\ Step(c, "cache", "quit")
    /\ cache \in {"ready", "quitting"} /\ cache' = "quitting"
    /\ UNCHANGED <<database, datalake, exited>>

(* A client that is just reconnecting is not connected, and left alone. *)
QuitCache(c) ==
    /\ IF cache = "ready"
       THEN Step(c, "cache", "quit") /\ cache' = "quitting"
       ELSE Step(c, "cache", IF cache = "quitting" THEN "quit" ELSE "datalake") /\ UNCHANGED cache
    /\ UNCHANGED <<database, datalake, exited>>

(* disconnect() answers false when quit() fails; either way the client ends. *)
CacheQuit(c) ==
    /\ Step(c, "quit", "datalake")
    /\ cache' = IF cache = "quitting" THEN "end" ELSE cache
    /\ UNCHANGED <<database, datalake, exited>>

CloseDatalake(c) ==
    /\ Step(c, "datalake", IF datalake THEN "close" ELSE "database")
    /\ UNCHANGED <<database, datalake, cache, exited>>

DatalakeClosed(c) ==
    /\ ~exited
    /\ chain[c] = "close"
    /\ chain' = [chain EXCEPT ![c] = "database"]
    /\ datalake' = FALSE
    /\ used' = FALSE
    /\ UNCHANGED <<up, database, cache, http, routes, serving, sockets, tick, exited, clean>>

(* destroy() throws when the pool ends already or has ended. *)
DestroyDatabase(c) ==
    /\ IF database = "initialized"
       THEN Step(c, "database", "end") /\ database' = "ending"
       ELSE Step(c, "database", "exit") /\ UNCHANGED database
    /\ UNCHANGED <<datalake, cache, exited>>

DatabaseDestroyed(c) ==
    /\ Step(c, "end", "exit")
    /\ database' = "destroyed"
    /\ UNCHANGED <<datalake, cache, exited>>

Exit(c) ==
    /\ Step(c, "exit", "exit")
    /\ exited' = TRUE
    /\ UNCHANGED connections

(* The pod is started again: the Deployment keeps its replicas running. *)
Restart ==
    /\ exited
    /\ up["database"]
    /\ database' = "initialized" /\ datalake' = FALSE /\ used' = TRUE
    /\ cache' = IF up["cache"] THEN "ready" ELSE "reconnecting"
    /\ http' = "listening" /\ routes' = "enabled" /\ serving' = TRUE
    /\ sockets' = {}
    /\ chain' = [c \in Chain |-> "idle"]
    /\ tick' = [t \in Tick |-> NoRun]
    /\ exited' = FALSE
    /\ clean' = TRUE
    /\ UNCHANGED up

(***************************************************************************)
(* DISABLE_ALL_ROUTES: the HTTP server is closed, or told to listen again, *)
(* which Fastify refuses, listening or closed, with a rejection that nobody*)
(* handles.                                                                *)
(***************************************************************************)
SwitchOff ==
    /\ ~exited
    /\ routes' = "disabled"
    /\ http' = "closed"
    /\ UNCHANGED <<up, connections, serving, sockets, chain, tick, exited, clean>>

SwitchOn ==
    /\ routes' = "enabled"
    /\ \E c \in Chain : Close({c})

(***************************************************************************)
(* SyncCronTask.execute.                                                   *)
(***************************************************************************)
(* What follows the check of the database; when nothing is left to be opened
   the run ends, and disconnects all sockets if anything was not active.   *)
Goto(t, run, step) == tick' = [tick EXCEPT ![t] = [run EXCEPT !.step = step]] /\ UNCHANGED sockets
Finish(t, run) ==
    /\ tick' = [tick EXCEPT ![t] = NoRun]
    /\ sockets' = IF run.database /\ run.datalake /\ run.cache THEN sockets ELSE {}
AfterDatalake(t, run) == IF run.cache THEN Finish(t, run) ELSE Goto(t, run, "cache")
AfterDatabase(t, run) == IF run.datalake THEN AfterDatalake(t, run) ELSE Goto(t, run, "datalake")

HandleCron(t) ==
    /\ ~exited
    /\ serving
    /\ tick[t] = NoRun
    /\ Goto(t, NoRun, "test")
    /\ UNCHANGED <<up, connections, http, routes, serving, chain, exited, clean>>

TestConnection == database = "initialized" /\ up["database"]

(* Mutant of Tested: the connections that are not active count as active. *)
TestedAlone(t) ==
    /\ ~exited
    /\ tick[t].step = "test"
    /\ AfterDatabase(t, [tick[t] EXCEPT !.database = TestConnection, !.datalake = TRUE, !.cache = TRUE])
    /\ UNCHANGED <<up, connections, http, routes, serving, chain, exited, clean>>

(* The query has answered: all three are looked at, then reopened in turn. *)
Tested(t) ==
    /\ ~exited
    /\ tick[t].step = "test"
    /\ LET run == [tick[t] EXCEPT !.database = TestConnection, !.datalake = datalake,
                                  !.cache = cache = "ready"]
       IN  IF run.database THEN AfterDatabase(t, run) ELSE Goto(t, run, "initialize")
    /\ UNCHANGED <<up, connections, http, routes, serving, chain, exited, clean>>

(* initialize() throws, and is ignored, unless the DataSource was destroyed. *)
StartConnection(t) ==
    /\ ~exited
    /\ tick[t].step = "initialize"
    /\ database' = IF database = "destroyed" /\ up["database"] THEN "initialized" ELSE database
    /\ Goto(t, tick[t], "retest")
    /\ UNCHANGED <<up, datalake, used, cache, http, routes, serving, chain, exited, clean>>

Retested(t) ==
    /\ ~exited
    /\ tick[t].step = "retest"
    /\ AfterDatabase(t, [tick[t] EXCEPT !.database = TestConnection])
    /\ UNCHANGED <<up, connections, http, routes, serving, chain, exited, clean>>

(* Mutant of ConnectDatalake: connect() is not awaited. *)
ConnectUnawaited(t) ==
    /\ ~exited
    /\ tick[t].step = "datalake"
    /\ AfterDatalake(t, tick[t])
    /\ UNCHANGED <<up, connections, http, routes, serving, chain, exited, clean>>

(* connect() throws when the server is down: Redis is not tried any more. *)
ConnectDatalake(t) ==
    /\ ~exited
    /\ tick[t].step = "datalake"
    /\ \/ /\ up["datalake"]
          /\ datalake' = TRUE
          /\ AfterDatalake(t, [tick[t] EXCEPT !.datalake = TRUE])
       \/ /\ ~up["datalake"]
          /\ Finish(t, tick[t])
          /\ UNCHANGED datalake
    /\ UNCHANGED <<up, database, used, cache, http, routes, serving, chain, exited, clean>>

(* connect() throws when the server is down or the client connects already. *)
ConnectCache(t) ==
    /\ ~exited
    /\ tick[t].step = "cache"
    /\ \/ /\ up["cache"] /\ cache \in {"reconnecting", "end"}
          /\ cache' = "ready"
          /\ Finish(t, [tick[t] EXCEPT !.cache = TRUE])
       \/ /\ ~up["cache"] \/ cache \in {"reconnecting", "ready", "quitting"}
          /\ Finish(t, tick[t])
          /\ UNCHANGED cache
    /\ UNCHANGED <<up, database, datalake, used, http, routes, serving, chain, exited, clean>>

Shutdown(c) ==
    \/ Destroy(c) \/ QuitCache(c) \/ CacheQuit(c) \/ CloseDatalake(c) \/ DatalakeClosed(c)
    \/ DestroyDatabase(c) \/ DatabaseDestroyed(c) \/ Exit(c)

Cron(t) ==
    \/ Tested(t) \/ StartConnection(t) \/ Retested(t) \/ ConnectDatalake(t) \/ ConnectCache(t)

Next ==
    \/ \E x \in Services : Outage(x) \/ Recovery(x)
    \/ Reconnect \/ UseDatalake
    \/ \E s \in Socket : ConnectSocket(s)
    \/ Signal \/ Uncaught \/ SwitchOff \/ SwitchOn
    \/ \E c \in Chain : Shutdown(c)
    \/ Restart
    \/ \E t \in Tick : HandleCron(t) \/ Cron(t)

Spec == Init /\ [][Next]_vars

(* Every awaited call answers in the end, the cron job ticks, ioredis retries
   and the pod is started again.                                           *)
Fairness ==
    /\ \A c \in Chain : WF_vars(Shutdown(c))
    /\ \A t \in Tick : WF_vars(HandleCron(t)) /\ WF_vars(Cron(t))
    /\ WF_vars(Reconnect)
    /\ WF_vars(Restart)

FairSpec == Spec /\ Fairness

(***************************************************************************)
(* Properties.                                                             *)
(***************************************************************************)

(* A shutdown nothing got in the way of closes what it leaves: at exit Redis
   and Mongo are closed and so is the database, or, when shutdowns overlap as
   they do after a signal, its pool is still draining in the other one.    *)
GracefulExit ==
    exited /\ clean =>
        /\ cache = "end"
        /\ ~datalake
        /\ \/ database = "destroyed"
           \/ database = "ending" /\ \E c \in Chain : chain[c] = "end"

(* Once a shutdown has run its destroy hook nobody is let in any more: no
   client and no HTTP, not even by a switch that comes late, by a cron run in
   flight or by an overlapping shutdown.                                   *)
NobodyIsLetIn == Destroyed # {} => sockets = {} /\ http = "closed"

(* When the database or Redis stays away while the instance stays, no client
   stays connected for good: 'Unavailable Backing Services'.               *)
UnservedAreCut ==
    \A x \in {"database", "cache"} :
        (<>[](~up[x] /\ ~Closing)) => []<>(sockets = {})

(* When everything stays up and the instance stays, all connections are open
   in the end, and remain so.                                              *)
ConnectionsRecover ==
    (<>[]((\A x \in Services : up[x]) /\ ~Closing)) => <>[]AllConnected

(* A shutdown that began ends in an exit. *)
ShutdownEnds == Closing ~> exited

(* 'Restarting HTTP server due DISABLE_ALL_ROUTES event': after the switch is
   turned back on the HTTP server listens.                                 *)
RoutesRestart == [][SwitchOn => http' = "listening"]_vars

(***************************************************************************)
(* The inductive invariant behind GracefulExit and NobodyIsLetIn.          *)
(***************************************************************************)
(* Nobody comes in because nothing serves. *)
NothingServes == Destroyed # {} => ~serving /\ sockets = {} /\ http = "closed"

(* The pool is drained by one shutdown at a time. *)
OneDrains ==
    /\ database = "ending" <=> \E c \in Chain : chain[c] = "end"
    /\ \A c, d \in Chain : chain[c] = "end" /\ chain[d] = "end" => c = d

(* Who exits has come to the end of a shutdown. *)
ExitIsLast == exited => \E c \in Chain : chain[c] = "exit"

(* How far each shutdown has come with the connections, when clean. *)
InOrder ==
    clean =>
        /\ Destroyed # {} => InFlight = {}
        /\ Closing => cache # "reconnecting" /\ (datalake \/ ~used)
        /\ \A c \in Chain :
              /\ chain[c] = "quit" => cache \in {"quitting", "end"}
              /\ chain[c] \in {"datalake", "close", "database", "end", "exit"} => cache = "end"
              /\ chain[c] \in {"database", "end", "exit"} => ~datalake /\ ~used
              /\ chain[c] = "exit" => database \in {"ending", "destroyed"}

(* The invariant the theorems rest on: no server serves after a destroy hook,
   the pool is drained once, only the last step exits, stores are closed in
   order.                                                                  *)
ShutdownInv == TypeOK /\ NothingServes /\ OneDrains /\ ExitIsLast /\ InOrder
=============================================================================
