-------------------------- MODULE LifecycleProofs --------------------------
(***************************************************************************)
(* Proofs about Lifecycle for any number of overlapping shutdowns, cron    *)
(* runs and clients: type correctness, NobodyIsLetIn and GracefulExit.     *)
(***************************************************************************)
EXTENDS Lifecycle, TLAPS

(* What a cron run does next keeps it well typed and lets nobody in. *)
LEMMA CronNext ==
    ASSUME TypeOK, NEW t \in Tick, NEW run \in Run,
           \/ AfterDatabase(t, run)
           \/ AfterDatalake(t, run)
           \/ Finish(t, run)
           \/ \E step \in TickSteps : Goto(t, run, step)
    PROVE  tick' \in [Tick -> Run] /\ sockets' \subseteq sockets
  <1>1. NoRun \in Run
    BY DEF NoRun, Run, TickSteps
  <1>2. ASSUME NEW step \in TickSteps, Goto(t, run, step)
        PROVE  tick' \in [Tick -> Run] /\ sockets' \subseteq sockets
    <2>1. [run EXCEPT !.step = step] \in Run
      BY DEF Run
    <2>2. QED
      BY <1>2, <2>1 DEF Goto, TypeOK
  <1>3. ASSUME Finish(t, run)
        PROVE  tick' \in [Tick -> Run] /\ sockets' \subseteq sockets
    BY <1>1, <1>3 DEF Finish, TypeOK
  <1>4. AfterDatalake(t, run) => Finish(t, run) \/ \E step \in TickSteps : Goto(t, run, step)
    BY DEF AfterDatalake, TickSteps
  <1>5. AfterDatabase(t, run) => AfterDatalake(t, run) \/ \E step \in TickSteps : Goto(t, run, step)
    BY DEF AfterDatabase, TickSteps
  <1>6. QED
    BY <1>2, <1>3, <1>4, <1>5

(* What a step of a cron run does: it goes on, and leaves the shutdowns, the
   HTTP server and the clients who are not cut off alone.                  *)
LEMMA CronStep ==
    ASSUME TypeOK, NEW t \in Tick, HandleCron(t) \/ Cron(t)
    PROVE  /\ tick' \in [Tick -> Run]
           /\ sockets' \subseteq sockets
           /\ UNCHANGED <<up, used, http, routes, serving, chain, exited, clean>>
           /\ ~exited
  <1>1. NoRun \in Run /\ tick[t] \in Run
    BY DEF NoRun, Run, TickSteps, TypeOK
  <1>2. \A d, l, c \in BOOLEAN :
           /\ [tick[t] EXCEPT !.database = d, !.datalake = l, !.cache = c] \in Run
           /\ [tick[t] EXCEPT !.database = d] \in Run
           /\ [tick[t] EXCEPT !.datalake = l] \in Run
           /\ [tick[t] EXCEPT !.cache = c] \in Run
    BY <1>1 DEF Run
  <1>3. CASE HandleCron(t)
    <2>1. Goto(t, NoRun, "test") /\ "test" \in TickSteps
      BY <1>3 DEF HandleCron, TickSteps
    <2>2. QED
      BY <1>1, <1>3, <2>1, CronNext DEF HandleCron, connections
  <1>4. CASE Tested(t)
    <2> DEFINE run == [tick[t] EXCEPT !.database = TestConnection, !.datalake = datalake,
                                      !.cache = cache = "ready"]
    <2>1. run \in Run
      BY <1>1 DEF Run, TestConnection, TypeOK
    <2>2. "initialize" \in TickSteps
      BY DEF TickSteps
    <2>3. AfterDatabase(t, run) \/ Goto(t, run, "initialize")
      BY <1>4 DEF Tested
    <2>4. tick' \in [Tick -> Run] /\ sockets' \subseteq sockets
      <3> HIDE DEF run
      <3> QED
        BY <2>1, <2>2, <2>3, CronNext
    <2>5. QED
      BY <1>4, <2>4 DEF Tested, connections
  <1>5. CASE StartConnection(t)
    <2>1. Goto(t, tick[t], "retest") /\ "retest" \in TickSteps
      BY <1>5 DEF StartConnection, TickSteps
    <2>2. QED
      BY <1>1, <1>5, <2>1, CronNext DEF StartConnection
  <1>6. CASE Retested(t)
    <2>1. [tick[t] EXCEPT !.database = TestConnection] \in Run
      BY <1>1 DEF Run, TestConnection, TypeOK
    <2>2. tick' \in [Tick -> Run] /\ sockets' \subseteq sockets
      BY <1>6, <2>1, CronNext DEF Retested
    <2>3. QED
      BY <1>6, <2>2 DEF Retested, connections
  <1>7. CASE ConnectDatalake(t)
    <2>1. AfterDatalake(t, [tick[t] EXCEPT !.datalake = TRUE]) \/ Finish(t, tick[t])
      BY <1>7 DEF ConnectDatalake
    <2>2. tick' \in [Tick -> Run] /\ sockets' \subseteq sockets
      BY <1>1, <1>2, <2>1, CronNext
    <2>3. QED
      BY <1>7, <2>2 DEF ConnectDatalake
  <1>8. CASE ConnectCache(t)
    <2>1. Finish(t, [tick[t] EXCEPT !.cache = TRUE]) \/ Finish(t, tick[t])
      BY <1>8 DEF ConnectCache
    <2>2. tick' \in [Tick -> Run] /\ sockets' \subseteq sockets
      BY <1>1, <1>2, <2>1, CronNext
    <2>3. QED
      BY <1>8, <2>2 DEF ConnectCache
  <1>9. QED
    BY <1>3, <1>4, <1>5, <1>6, <1>7, <1>8 DEF Cron

(***************************************************************************)
(* Types, and who is let in.                                               *)
(***************************************************************************)
(* A started instance is well typed. *)
LEMMA TypeInit == Init => TypeOK
  <1>1. NoRun \in Run
    BY DEF NoRun, Run, TickSteps
  <1>2. "idle" \in ChainSteps
    BY DEF ChainSteps
  <1>3. Init => up \in [Services -> BOOLEAN] /\ chain \in [Chain -> ChainSteps]
    BY <1>2 DEF Init
  <1>4. Init => tick \in [Tick -> Run]
    BY <1>1 DEF Init
  <1>5. QED
    BY <1>3, <1>4 DEF Init, TypeOK

(* Every step keeps the types. *)
LEMMA TypeStep == TypeOK /\ [Next]_vars => TypeOK'
  <1> SUFFICES ASSUME TypeOK, [Next]_vars PROVE TypeOK'
    OBVIOUS
  <1>1. ASSUME NEW x \in Services, Outage(x) \/ Recovery(x) PROVE TypeOK'
    BY <1>1 DEF Outage, Recovery, connections, TypeOK
  <1>2. CASE Reconnect \/ UseDatalake \/ SwitchOff
    BY <1>2 DEF Reconnect, UseDatalake, SwitchOff, connections, TypeOK
  <1>3. ASSUME NEW s \in Socket, ConnectSocket(s) PROVE TypeOK'
    BY <1>3 DEF ConnectSocket, connections, TypeOK
  <1>4. ASSUME NEW cs \in SUBSET Chain, Close(cs) PROVE chain' \in [Chain -> ChainSteps] /\ clean' \in BOOLEAN
    BY <1>4 DEF Close, TypeOK, ChainSteps
  <1>5. CASE Signal \/ Uncaught \/ SwitchOn
    <2>1. PICK cs \in SUBSET Chain : Close(cs)
      BY <1>5 DEF Signal, Uncaught, SwitchOn
    <2>2. routes' \in {"enabled", "disabled"}
      BY <1>5 DEF Signal, Uncaught, SwitchOn, TypeOK
    <2>3. QED
      BY <1>4, <2>1, <2>2 DEF Close, connections, TypeOK
  <1>6. ASSUME NEW c \in Chain, Shutdown(c) PROVE TypeOK'
    <2>1. CASE Destroy(c)
      BY <2>1 DEF Destroy, connections, ChainSteps, TypeOK
    <2>2. CASE QuitCache(c)
      BY <2>2 DEF QuitCache, Step, ChainSteps, TypeOK
    <2>3. CASE CacheQuit(c)
      BY <2>3 DEF CacheQuit, Step, ChainSteps, TypeOK
    <2>4. CASE CloseDatalake(c)
      BY <2>4 DEF CloseDatalake, Step, ChainSteps, TypeOK
    <2>5. CASE DatalakeClosed(c)
      BY <2>5 DEF DatalakeClosed, ChainSteps, TypeOK
    <2>6. CASE DestroyDatabase(c)
      BY <2>6 DEF DestroyDatabase, Step, ChainSteps, TypeOK
    <2>7. CASE DatabaseDestroyed(c)
      BY <2>7 DEF DatabaseDestroyed, Step, ChainSteps, TypeOK
    <2>8. CASE Exit(c)
      BY <2>8 DEF Exit, Step, connections, ChainSteps, TypeOK
    <2>9. QED
      BY <1>6, <2>1, <2>2, <2>3, <2>4, <2>5, <2>6, <2>7, <2>8 DEF Shutdown
  <1>7. CASE Restart
    BY <1>7 DEF Restart, NoRun, Run, TickSteps, ChainSteps, TypeOK
  <1>8. ASSUME NEW t \in Tick, HandleCron(t) \/ Cron(t) PROVE TypeOK'
    <2>1. /\ tick' \in [Tick -> Run] /\ sockets' \subseteq sockets
          /\ UNCHANGED <<up, used, http, routes, serving, chain, exited, clean>>
      BY <1>8, CronStep
    <2>2. /\ database' \in {"initialized", "ending", "destroyed"}
          /\ datalake' \in BOOLEAN
          /\ cache' \in {"ready", "reconnecting", "quitting", "end"}
      BY <1>8 DEF HandleCron, Cron, Tested, StartConnection, Retested, ConnectDatalake,
                  ConnectCache, connections, TypeOK
    <2>3. QED
      BY <2>1, <2>2 DEF TypeOK
  <1>9. CASE UNCHANGED vars
    BY <1>9 DEF vars, connections, TypeOK
  <1>10. QED
    BY <1>1, <1>2, <1>3, <1>5, <1>6, <1>7, <1>8, <1>9 DEF Next

(* Nothing serves after a destroy hook: a socket connects only to what serves,
   and only a restart serves again, when no shutdown is left.              *)
LEMMA ServesStep == TypeOK /\ NothingServes /\ [Next]_vars => NothingServes'
  <1> SUFFICES ASSUME TypeOK, NothingServes, [Next]_vars PROVE NothingServes'
    OBVIOUS
  <1>1. ASSUME NEW x \in Services, Outage(x) \/ Recovery(x) PROVE NothingServes'
    BY <1>1 DEF Outage, Recovery, NothingServes, Destroyed
  <1>2. CASE Reconnect \/ UseDatalake \/ SwitchOff
    BY <1>2 DEF Reconnect, UseDatalake, SwitchOff, NothingServes, Destroyed
  <1>3. ASSUME NEW s \in Socket, ConnectSocket(s) PROVE NothingServes'
    BY <1>3 DEF ConnectSocket, NothingServes, Destroyed
  <1>4. CASE Signal \/ Uncaught \/ SwitchOn
    <2>1. PICK cs \in SUBSET Chain : Close(cs)
      BY <1>4 DEF Signal, Uncaught, SwitchOn
    <2>2. Destroyed' \subseteq Destroyed
      BY <2>1 DEF Close, Destroyed, TypeOK
    <2>3. QED
      BY <2>1, <2>2 DEF Close, NothingServes
  <1>5. ASSUME NEW c \in Chain, Shutdown(c) PROVE NothingServes'
    <2>1. CASE Destroy(c)
      BY <2>1 DEF Destroy, NothingServes
    <2>2. CASE ~Destroy(c)
      <3>1. c \in Destroyed /\ UNCHANGED <<serving, sockets, http>>
        BY <1>5, <2>2 DEF Shutdown, QuitCache, CacheQuit, CloseDatalake, DatalakeClosed,
                          DestroyDatabase, DatabaseDestroyed, Exit, Step, Destroyed
      <3>2. QED
        BY <3>1 DEF NothingServes
    <2>3. QED
      BY <2>1, <2>2
  <1>6. CASE Restart
    BY <1>6 DEF Restart, NothingServes, Destroyed
  <1>7. ASSUME NEW t \in Tick, HandleCron(t) \/ Cron(t) PROVE NothingServes'
    BY <1>7, CronStep DEF NothingServes, Destroyed
  <1>8. CASE UNCHANGED vars
    BY <1>8 DEF vars, NothingServes, Destroyed
  <1>9. QED
    BY <1>1, <1>2, <1>3, <1>4, <1>5, <1>6, <1>7, <1>8 DEF Next

(***************************************************************************)
(* The order of a shutdown.                                                *)
(***************************************************************************)
(* A cron run opens a DataSource only when no pool drains. *)
LEMMA DrainStep == TypeOK /\ OneDrains /\ [Next]_vars => OneDrains'
  <1> SUFFICES ASSUME TypeOK, OneDrains, [Next]_vars PROVE OneDrains'
    OBVIOUS
  <1>1. ASSUME NEW x \in Services, Outage(x) \/ Recovery(x) PROVE OneDrains'
    BY <1>1 DEF Outage, Recovery, connections, OneDrains
  <1>2. CASE Reconnect \/ UseDatalake \/ SwitchOff
    BY <1>2 DEF Reconnect, UseDatalake, SwitchOff, connections, OneDrains
  <1>3. ASSUME NEW s \in Socket, ConnectSocket(s) PROVE OneDrains'
    BY <1>3 DEF ConnectSocket, connections, OneDrains
  <1>4. CASE Signal \/ Uncaught \/ SwitchOn
    <2>1. PICK cs \in SUBSET Chain : Close(cs)
      BY <1>4 DEF Signal, Uncaught, SwitchOn
    <2>2. \A c \in Chain : chain'[c] = "end" <=> chain[c] = "end"
      BY <2>1 DEF Close, TypeOK
    <2>3. QED
      BY <2>1, <2>2 DEF Close, connections, OneDrains
  <1>5. ASSUME NEW c \in Chain, Shutdown(c) PROVE OneDrains'
    <2>1. CASE Destroy(c)
      BY <2>1 DEF Destroy, connections, OneDrains, TypeOK
    <2>2. CASE QuitCache(c)
      BY <2>2 DEF QuitCache, Step, OneDrains, TypeOK
    <2>3. CASE CacheQuit(c)
      BY <2>3 DEF CacheQuit, Step, OneDrains, TypeOK
    <2>4. CASE CloseDatalake(c)
      BY <2>4 DEF CloseDatalake, Step, OneDrains, TypeOK
    <2>5. CASE DatalakeClosed(c)
      BY <2>5 DEF DatalakeClosed, OneDrains, TypeOK
    <2>6. CASE DestroyDatabase(c)
      BY <2>6 DEF DestroyDatabase, Step, OneDrains, TypeOK
    <2>7. CASE DatabaseDestroyed(c)
      BY <2>7 DEF DatabaseDestroyed, Step, OneDrains, TypeOK
    <2>8. CASE Exit(c)
      BY <2>8 DEF Exit, Step, connections, OneDrains, TypeOK
    <2>9. QED
      BY <1>5, <2>1, <2>2, <2>3, <2>4, <2>5, <2>6, <2>7, <2>8 DEF Shutdown
  <1>6. CASE Restart
    BY <1>6 DEF Restart, OneDrains
  <1>7. ASSUME NEW t \in Tick, HandleCron(t) \/ Cron(t) PROVE OneDrains'
    <2>1. UNCHANGED chain
      BY <1>7, CronStep
    <2>2. database' = "ending" <=> database = "ending"
      BY <1>7 DEF HandleCron, Cron, Tested, StartConnection, Retested, ConnectDatalake,
                  ConnectCache, connections
    <2>3. QED
      BY <2>1, <2>2 DEF OneDrains
  <1>8. CASE UNCHANGED vars
    BY <1>8 DEF vars, connections, OneDrains
  <1>9. QED
    BY <1>1, <1>2, <1>3, <1>4, <1>5, <1>6, <1>7, <1>8 DEF Next

(* Only the last step of a shutdown exits, and nothing but a restart follows. *)
LEMMA ExitStep == TypeOK /\ ExitIsLast /\ [Next]_vars => ExitIsLast'
  <1> SUFFICES ASSUME TypeOK, ExitIsLast, [Next]_vars PROVE ExitIsLast'
    OBVIOUS
  <1>1. ASSUME NEW x \in Services, Outage(x) \/ Recovery(x) PROVE ExitIsLast'
    BY <1>1 DEF Outage, Recovery, ExitIsLast
  <1>2. CASE Reconnect \/ UseDatalake \/ SwitchOff
    BY <1>2 DEF Reconnect, UseDatalake, SwitchOff, ExitIsLast
  <1>3. ASSUME NEW s \in Socket, ConnectSocket(s) PROVE ExitIsLast'
    BY <1>3 DEF ConnectSocket, ExitIsLast
  <1>4. CASE Signal \/ Uncaught \/ SwitchOn
    BY <1>4 DEF Signal, Uncaught, SwitchOn, Close, ExitIsLast
  <1>5. ASSUME NEW c \in Chain, Shutdown(c) PROVE ExitIsLast'
    <2>1. CASE Destroy(c)
      BY <2>1 DEF Destroy, ExitIsLast, TypeOK
    <2>2. CASE QuitCache(c)
      BY <2>2 DEF QuitCache, Step, ExitIsLast, TypeOK
    <2>3. CASE CacheQuit(c)
      BY <2>3 DEF CacheQuit, Step, ExitIsLast, TypeOK
    <2>4. CASE CloseDatalake(c)
      BY <2>4 DEF CloseDatalake, Step, ExitIsLast, TypeOK
    <2>5. CASE DatalakeClosed(c)
      BY <2>5 DEF DatalakeClosed, ExitIsLast, TypeOK
    <2>6. CASE DestroyDatabase(c)
      BY <2>6 DEF DestroyDatabase, Step, ExitIsLast, TypeOK
    <2>7. CASE DatabaseDestroyed(c)
      BY <2>7 DEF DatabaseDestroyed, Step, ExitIsLast, TypeOK
    <2>8. CASE Exit(c)
      BY <2>8 DEF Exit, Step, connections, ExitIsLast, TypeOK
    <2>9. QED
      BY <1>5, <2>1, <2>2, <2>3, <2>4, <2>5, <2>6, <2>7, <2>8 DEF Shutdown
  <1>6. CASE Restart
    BY <1>6 DEF Restart, ExitIsLast
  <1>7. ASSUME NEW t \in Tick, HandleCron(t) \/ Cron(t) PROVE ExitIsLast'
    BY <1>7, CronStep DEF ExitIsLast
  <1>8. CASE UNCHANGED vars
    BY <1>8 DEF vars, ExitIsLast
  <1>9. QED
    BY <1>1, <1>2, <1>3, <1>4, <1>5, <1>6, <1>7, <1>8 DEF Next

(* While clean, no cron run is left to reopen what a shutdown has closed, and
   nothing is skipped as not connected.                                    *)
LEMMA OrderStep ==
    TypeOK /\ NothingServes /\ OneDrains /\ InOrder /\ [Next]_vars => InOrder'
  <1> SUFFICES ASSUME TypeOK, NothingServes, OneDrains, InOrder, [Next]_vars, clean'
               PROVE  InOrder'
    BY DEF InOrder
  <1> USE DEF InFlight, Destroyed, Closing
  <1>1. ASSUME NEW x \in Services, Outage(x) \/ Recovery(x) PROVE InOrder'
    BY <1>1 DEF Outage, Recovery, connections, InOrder
  <1>2. CASE Reconnect \/ UseDatalake \/ SwitchOff
    BY <1>2 DEF Reconnect, UseDatalake, SwitchOff, connections, InOrder
  <1>3. ASSUME NEW s \in Socket, ConnectSocket(s) PROVE InOrder'
    BY <1>3 DEF ConnectSocket, connections, InOrder
  <1>4. CASE Signal \/ Uncaught \/ SwitchOn
    <2>1. PICK cs \in SUBSET Chain : Close(cs)
      BY <1>4 DEF Signal, Uncaught, SwitchOn
    <2>2. /\ Destroyed' = Destroyed
          /\ \A c \in Chain : chain'[c] \in {"idle", "destroy"} \/ chain'[c] = chain[c]
      BY <2>1 DEF Close, TypeOK
    <2>3. QED
      BY <2>1, <2>2 DEF Close, AllConnected, connections, InOrder
  <1>5. ASSUME NEW c \in Chain, Shutdown(c) PROVE InOrder'
    <2>1. CASE Destroy(c)
      BY <2>1 DEF Destroy, connections, InOrder, OneDrains, TypeOK
    <2>2. CASE QuitCache(c)
      BY <2>2 DEF QuitCache, Step, InOrder, OneDrains, TypeOK
    <2>3. CASE CacheQuit(c)
      BY <2>3 DEF CacheQuit, Step, InOrder, OneDrains, TypeOK
    <2>4. CASE CloseDatalake(c)
      BY <2>4 DEF CloseDatalake, Step, InOrder, OneDrains, TypeOK
    <2>5. CASE DatalakeClosed(c)
      BY <2>5 DEF DatalakeClosed, InOrder, OneDrains, TypeOK
    <2>6. CASE DestroyDatabase(c)
      BY <2>6 DEF DestroyDatabase, Step, InOrder, OneDrains, TypeOK
    <2>7. CASE DatabaseDestroyed(c)
      BY <2>7 DEF DatabaseDestroyed, Step, InOrder, OneDrains, TypeOK
    <2>8. CASE Exit(c)
      BY <2>8 DEF Exit, Step, connections, InOrder, OneDrains, TypeOK
    <2>9. QED
      BY <1>5, <2>1, <2>2, <2>3, <2>4, <2>5, <2>6, <2>7, <2>8 DEF Shutdown
  <1>6. CASE Restart
    BY <1>6 DEF Restart, NoRun, InOrder
  <1>7. ASSUME NEW t \in Tick, HandleCron(t) \/ Cron(t) PROVE InOrder'
    <2>1. UNCHANGED <<used, chain, clean>>
      BY <1>7, CronStep
    <2>2. CASE Destroyed # {}
      <3>1. serving = FALSE /\ tick[t].step = "idle"
        BY <2>1, <2>2 DEF NothingServes, InOrder
      <3>2. QED
        BY <1>7, <3>1 DEF HandleCron, Cron, Tested, StartConnection, Retested,
                          ConnectDatalake, ConnectCache
    <2>3. CASE Destroyed = {}
      <3>1. /\ cache' = cache \/ cache' = "ready"
            /\ datalake' = datalake \/ datalake'
        BY <1>7 DEF HandleCron, Cron, Tested, StartConnection, Retested, ConnectDatalake,
                    ConnectCache, connections
      <3>2. QED
        BY <2>1, <2>3, <3>1 DEF InOrder
    <2>4. QED
      BY <2>2, <2>3
  <1>8. CASE UNCHANGED vars
    BY <1>8 DEF vars, connections, InOrder
  <1>9. QED
    BY <1>1, <1>2, <1>3, <1>4, <1>5, <1>6, <1>7, <1>8 DEF Next

(***************************************************************************)
(* The theorems.                                                           *)
(***************************************************************************)
(* Every variable of the life cycle keeps its type: no step of a shutdown or
   of a cron run leaves the steps the code has.                            *)
THEOREM TypeCorrect == Spec => []TypeOK
  <1>1. QED
    BY TypeInit, TypeStep, PTL DEF Spec

(* The inductive invariant of a shutdown holds for any number of overlapping
   shutdowns, cron runs and clients.                                       *)
THEOREM ShutdownInvariant == Spec => []ShutdownInv
  <1>1. Init => ShutdownInv
    <2>1. Init => TypeOK
      BY TypeInit
    <2>2. Init => NothingServes /\ OneDrains /\ ExitIsLast
      BY DEF Init, NothingServes, OneDrains, ExitIsLast, Destroyed
    <2>3. Init => InOrder
      BY DEF Init, InOrder, Destroyed, Closing
    <2>4. QED
      BY <2>1, <2>2, <2>3 DEF ShutdownInv
  <1>2. ShutdownInv /\ [Next]_vars => ShutdownInv'
    BY TypeStep, ServesStep, DrainStep, ExitStep, OrderStep DEF ShutdownInv
  <1>3. QED
    BY <1>1, <1>2, PTL DEF Spec

(* Once a destroy hook has run nobody is let in any more, however shutdowns,
   switches of the routes and cron runs in flight overlap.                 *)
THEOREM NobodyGetsIn == Spec => []NobodyIsLetIn
  <1>1. ShutdownInv => NobodyIsLetIn
    BY DEF ShutdownInv, NothingServes, NobodyIsLetIn
  <1>2. QED
    BY <1>1, ShutdownInvariant, PTL

(* The exit of a shutdown nothing got in the way of leaves Redis and Mongo
   closed and a DataSource that is destroyed or being drained by another one. *)
THEOREM ExitsGracefully == Spec => []GracefulExit
  <1>1. ShutdownInv => GracefulExit
    <2> SUFFICES ASSUME ShutdownInv, exited, clean
                 PROVE  /\ cache = "end"
                        /\ ~datalake
                        /\ \/ database = "destroyed"
                           \/ database = "ending" /\ \E c \in Chain : chain[c] = "end"
      BY DEF GracefulExit
    <2>1. PICK c \in Chain : chain[c] = "exit"
      BY DEF ShutdownInv, ExitIsLast
    <2>2. cache = "end" /\ ~datalake /\ database \in {"ending", "destroyed"}
      BY <2>1 DEF ShutdownInv, InOrder
    <2>3. QED
      BY <2>2 DEF ShutdownInv, OneDrains
  <1>2. QED
    BY <1>1, ShutdownInvariant, PTL
=============================================================================
