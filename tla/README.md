# Models of the Node back-end boilerplate

The repository is a NestJS application: an HTTP, GraphQL and websocket API in front of PostgreSQL
(TypeORM), MongoDB (the "datalake") and Redis (the cache), an SQS FIFO queue of events, a cron job
and the shutdown hooks of the process.  This directory holds TLA+ modules of the parts whose
correctness depends on the order in which awaited calls of several actors happen, the TLC
configurations that check them on small instances, and proofs, checked by TLAPS, of what matters
most for every size of the instance.

Paths below are relative to `src/src/modules/`.  `PROJECT.json` maps each definition to its lines.

## 1. Inventory

| Component | State | Operations | Talks to |
|---|---|---|---|
| Event queue consumer (`events/queue/consumers`, `handlers`, `sqsConsumers.factory.ts`) | `errorsCount`, disabled or not, the batch in work; the queue; `unprocessedMessages` in Mongo | poll, validate, handle by schema, store a failure, delete, error listeners, disable | SQS, Mongo, webhooks, event emitter |
| Event queue producer (`events/queue/producers`, `core/infra/integration/aws/Sqs.client.ts`) | the deduplication ids the queue remembers | `dispatch`, the operations of the client | SQS |
| Subscriptions (`app/subscription`, `domain/entities/Subscription.entity.ts`) | Mongo collection, Redis copy with a time to live | `save`, `get`, `list`, `delete` | Mongo, Redis |
| Websocket server (`events/websocket/server`), GraphQL connections, server-sent events | connected sockets, the room `NEW_CONNECTIONS` | connect, reconnect, disconnect, broadcast | subscriptions, queue producer |
| Webhooks (`app/hook`) | hooks in Redis with sendAt and time to live | register, `pullHook` | Redis, REST receivers, called by the queue handler |
| Users (`app/user`, `core/infra/database`) | tables `users` and `user_preferences` | create, get, update, delete, login, list | PostgreSQL, tokens |
| Life cycle (`core/start`, `core/cron`, `core/configs/nestListen.config.ts`, `Redis.client.ts`, `Mongo.client.ts`, `database/connection.ts`) | the three connections, the HTTP server, the websocket server, shutdowns in progress | signals, the shutdown hooks, the cron job that reconnects, the route switch | everything |
| Rate limiting (`common/guards/CustomThrottler.guard.ts`) | hits and blocks per throttler, client and route | count, block | the throttler storage of Nest |
| Exceptions and responses (`core/errors`, `api/filters`, `events/websocket/filters`, `api/interceptors`) | none | classify errors, answer, report | Sentry |
| Files and uploads (`app/file`, `app/reports`, `S3.client.ts`) | objects of a bucket, by a path made of file names | upload, download as a stream, delete | S3 |
| Authentication and validation (`api/guards`, `core/security`, validators, pipes) | the switch of the login | check tokens, hash, validate | event emitter |
| Helpers (`common/utils`) | none | masks, recursive copies, parsing, dates | |
| Other AWS clients (`Cognito.client.ts`, `Sns.client.ts`) | none | one command each, sent again by the SDK | Cognito, SNS |
| Health, event emitter, logging, configuration, development tools | little or none | one call each | |

### What is hard here

* **Interleaving at every `await`.**  No lock, no transaction and no unique index other than the one
  on `users.email` protects an operation.  Two operations on one subscription, hook or user run in
  any order of their calls, on one instance and on several.
* **At-least-once delivery.**  The library that polls SQS does not delete messages; the code does, in
  two places, one of them a listener nobody awaits.  A message is delivered again after 20 s,
  after a crash, and after a throw anywhere in its batch.
* **Partial failure.**  User and preference, document and cache entry, hook and request are written one
  after the other; any of the calls may throw.
* **Calls that are repeated.**  The AWS SDK sends a command again when the response was lost; the effect
  may have happened.
* **Caches.**  A reader writes to the cache what it read some awaits earlier.
* **Shutdown.**  Every signal is listened to twice (`enableShutdownHooks` and the handler that
  calls `nestApp.close()`), so two chains of hooks run side by side, next to a cron run that may be
  in flight.

The hazards, each at its line with the properties that catch it going wrong, are in
`PROJECT.json`.

## 2. Modules

### EventsQueue, and its contract MessageDelivery

`EventsQueue` has one action per awaited step of a consumer's loop, for any number of instances.
`pc[c]` says where `handleMessageBatch` / `handleMessage` stands: `next` (before the next message of
the batch), `executing` (in `EventsQueueHandler.execute`), `storing` (its catch block inserts into
`unprocessedMessages`), `deleting`, or outside of a batch `polling` and `stopped`.  `recoveries`
are the pending promises of `handleProcessingError`, which run next to the loop.  A message is a
model value, and what the code's decisions depend on are the sets `Invalid` (always rejected), `Domain`
(whose handler awaits `pullHook` and may fail) and `Switch` (`DISABLE_*` commands).

External, modelled by what the code relies on: SQS (a batch is a prefix of the queue; a message group in
flight blocks the rest; a stale receipt deletes nothing), the polling library (a throw is
reported by the `processing_error` or the `error` event), the Mongo driver (`insertOne` writes `_id`
into its argument, so inserting one object twice fails).

`MessageDelivery` is the abstract contract: at-least-once delivery with no loss.  `EventsQueue`
implements it under `pending <- queued` and `sent <- Sent`; TLC checks it with its liveness, TLAPS
proves the safety part.

### Subscriptions

One action per awaited call of `SubscriptionService`: `find`, `write`, `reread`, `cache`, `expire`,
`return` for `save`, `find`, `erase`, `uncache` for `delete`, `lookup`, `fetch` for `get`.  The operations are begun
by the websocket handlers (which also change the room and announce connections), by GraphQL (`put`,
`remove`) and by readers.  What is stored is an entity, and the entity's constructor spreads the fields `listen`
and `dataValues` of its argument over the others: a reconnect message that carries a `subscriptionId` in one of them
overrides the id that `updateConnection` forces on it.  So an operation has two ids: `sub`, under which `save` looks for
the document, caches it and moves the socket in the room, and `as`, which the entity it writes bears (`Written`);
`Carried` is what messages carry, any socket's id or `None`, which is no socket's.  The flag of `put` is
lost in the same constructor, which knows it under another name.

`raced[s]` is a history variable: which kinds of overlap or failure `s` has been through, and whether a message
stored it under another id or another under it (`renamed`, marked on both).  The code gives no guarantee under arbitrary
races, so each property says exactly which races it needs to be absent; that is what the module
tells about the code.

### Webhook

`pullHook` lists keys, fetches each value, starts deletions and requests without a pause in a loop,
awaits the deletions and then the requests.  `deletes` and `waiting` are the promises that are
pending, also after the call was rejected.

### Users, and its contract Accounts

The six use cases as chains of queries on the two tables.  Services wrap every exception they meet
into an internal error and login answers "unauthorized" to everything, which the answers reflect.
`seen` is what a request read and decides on later.  `raced` marks requests that overlapped another
writing request on the same user or e-mail.  `ListUsers` is one step: the page that `buildPaginationParams`
and `list` cut out, and the totals they compute.  Attributes that no decision depends on (names,
documents, the theme) are left out.

`Accounts` is the abstract contract: one directory, written atomically, in which accounts are opened with
an e-mail nobody has, altered, and closed for ever.  `Users` implements it under `accounts <-` the users
that are live with a live preference, `closed <-` those whose preference is deleted, `barred <-` the deleted
users: what the use cases show is never half of a user, although they write two tables without a
transaction.  Login looks at the users only, so whoever was created or deleted by half can log in; the
contract says of it that whoever is barred closed an account before, and stays barred.

### Lifecycle

`chain[c]` is one run of Nest's hooks: `destroy` (`onModuleDestroy`, synchronous), `cache`, `quit`,
`datalake`, `close`, `database`, `end` (the awaits of `beforeApplicationShutdown`), `exit`.  A signal
starts two, an uncaught error one.  `tick[t]` is a run of `SyncCronTask.execute` with what it has
found active.  `database`, `datalake` with `used`, and `cache` are the states of the three clients;
`up` tells whether the servers answer.  `Destroy` is the synchronous `onModuleDestroy`; a second one may throw in its
first call (the job is gone), which skips the rest.  `clean` is a history variable: everything was connected and
reachable and no cron run was in flight since the first shutdown began.

External: ioredis reconnects by itself until `quit()`, the Mongo driver connects on first use unless it was
closed and keeps `isConnected` through an outage, `DataSource.destroy()` throws when the pool ends or
has ended, Fastify refuses to listen again, the pod of the kubernetes Deployment is started again.

### Requests, and Errors

`Requests` is the way of a request, or of a socket's `reconnect` event, to its handler.  `Send` takes it in;
`Count` is one round of `CustomThrottlerGuard`'s loop, that is one awaited `increment` of the storage, so
that requests interleave between the throttlers (`passed[r]` counts the rounds); `Admit` is what
follows without a pause another request could use: the token guard, the pipes, `EventsGuard`, the
feature flag of the login; `Finish` is the handler's answer, reduced to what it can throw.  `Route`
has one entry per endpoint, one definition per controller.  The storage holds hits (pairs of key
and request) and blocked keys; `Expire` ends the life of a hit and `Unblock` a block, at any time the
durations allow.  `admitted` is a history variable.  `DisableLogin` is the switch that arrives from the queue.

`Errors` says which status and name each exception has, what the parser makes of foreign errors, what
the filters answer and under which severity Sentry is told.  The decorator `SentryExceptionCaptured`, which reports
some exceptions before the filter's own code does, is Sentry's and is left out: it only adds reports.

### Integrations, and AwsClients

`AwsClients` tabulates, for each operation of the four clients, what it demands of a response (`Wants`), how
often the SDK sends it (`maxAttempts`), and what the caller reads from how an attempt ended (`Reading`): an operation
that looks at the status only takes every success for its own, also one with an empty body that something in between sent.
`Integrations` lets callers run them: `Begin`, `Attempt` (with or without its effect, with or without
a response), `Retry`, `Receive`, and for a download `ReadChunk`, `Serve` and `Break`.  SQS is
external: it takes no second message for a deduplication id it remembers; the id is
`buildDeduplicationId`, of payload and second.  S3 is external, too: the last content put to a path
stays, and the path is what `FileService` makes of file names, sequences of parts of words here,
so that two names can meet at one path.

### How they compose

The queue's `Domain` messages are the calls of `pullHook` in `Webhook`: a rejected pull is a `Reject`
of the queue, a redelivery an overlapping `Begin` of another pull.  `Connect` of `Subscriptions` ends
in a `Dispatch`, which is a `sendMessage` of `Integrations`: the message the queue accepts is one `sent`
there.  `Disable` and `Restart` of the queue are what `Destroy` and `Exit` of `Lifecycle` do to it.  The use
cases of `Users` are what `Finish` of `Requests` stands for, and what they answer is among the
exceptions its `Route` names.  `Requests` extends `Errors`, `Integrations` extends `AwsClients`.
Each module takes the other's effect as a choice of its environment, made at any time; modules
that join two of them, for the properties that span both, are in the plan.

## 3. Runs

| Run | Instance | What it shows |
|---|---|---|
| `queue_delivery` | 2 instances, 2 messages (one domain event, one invalid), batches of 2, 2 faults | nothing accepted is lost; nothing is done twice without a fault; the queue empties; the contract is implemented |
| `queue_order` | 2 instances, 3 messages (2 switches), 2 faults | no message overtakes an earlier one; switches are applied in order; the inductive invariant |
| `subscription_races` | 2 ids: a socket with its handlers and readers, whose messages may carry the other id, and one that GraphQL writes and removes; 2 operations at a time, 2 kinds of race or failure, 1 failed call | the inductive invariant, by which cache entries expire; which races, failures and messages make a second document, revive a deleted one, lose that of an announced connection, make the cache or the room wrong |
| `subscription_list` | 2 ids | violation: `list()` from the cache returns elements without id |
| `webhook_pulls` | 2 hooks (one due later), 2 pulls at a time, 1 fault | the inductive invariant, by which a hook that is not due is kept; nothing disappears unasked; duplicates only by overlap or failure; a resolved pull is complete; a due hook is requested |
| `users_requests` | 2 ids, 2 e-mails, 2 passwords, 2 requests at a time, 4 in all, 1 fault | both tables agree, neither keeps an orphan, and together they implement `Accounts`, so deletion is for good; only owners write; tokens are genuine; duplicates are conflicts; updates take effect |
| `users_list` | the same, no fault | violation: `selectSoftDeleted` lists nobody |
| `lifecycle_shutdown` | 2 shutdowns, 1 cron run and 1 client at a time, any outages | graceful exit, nobody let in, the inductive invariant; recovery, cut-off of unserved clients, end of shutdown |
| `lifecycle_routes` | the same | violation: the HTTP server cannot be told to listen again |
| `requests_throttled` | 3 logins of 2 clients under 2 throttlers (limits 1 and 2), and 2 requests to each kind of endpoint | the limits hold, refusals are deserved, errors are reported, every request ends; the inductive invariant |
| `requests_login` | the logins | violation: a disabled login goes on |
| `integrations_calls` | 3 dispatches over 2 seconds; an upload with another or an empty one and a download at one path, names that lose their extension or their accents; every other operation alone; 1 caller that meets faults | a message enters the queue once, answers are true, downloads are fresh and whole; the inductive invariant |

Why the bounds are enough.  All rules compare two actors: two consumers, two pulls, two operations on one
id, two requests, two shutdowns; a third adds only repetitions.  Operations on different
subscription ids share nothing but `list()` and the documents that a reconnect message stores under another id, so the
races run with two ids, of which one is the handlers' and the other is GraphQL's (`Run` says what
runs on which): a message that carries the
other's id marks both and leaves room for no further race, and every kind of overlap that a property tolerates occurs on
one of the two.  Three messages are
the fewest with which a batch of two leaves one behind and two switches can be swapped.
`MaxErrors = 2` makes the limit of ten consecutive errors happen.  Two faults allow a failure of the
loop and one of its recovery.  A throttler with limit 1 refuses a client's second request, one with limit 2 counts
it still when the first one's window is over, which is how throttlers can disagree.  One faulty caller
meets faults as often as it tries, so every sequence of attempts occurs; three dispatches hold a
pair with equal payloads and a third one.  Four requests are a login, two changes and one request that races with them.
What the proofs cover (section 5) does not depend on the bounds.

Every property has a mutant of the code in `PROJECT.json` under which TLC finds it violated; the
mutants stand next to the definitions they change, marked "Mutant of".

`CHECK_DEADLOCK FALSE` is used where the instance comes to rest: the queue, when all messages have been
dispatched and the faults are used up; `Requests`, when the requests there will be are answered; `Integrations`,
when every caller has its answer and the time is over.  `Users` has an explicit `Quiet` step for the bound on requests; the other modules never stop.

## 4. Fairness

* Queue: weak fairness of each consumer's loop and of pending recoveries (awaited promises settle and
  the library polls for ever), of the visibility timeout, and of the restart of an instance that
  was told to stop or stopped polling (the kubernetes Deployment of `infra/kubernetes/deployments`, three
  replicas, starts a pod that ended again).  No fairness is
  assumed of dispatches, faults or a restart of an instance in good health.
* Webhook: weak fairness of a pull's own steps; HTTP requests have a timeout.
* Requests: weak fairness of the steps of a request that was taken in: the storage and the services a handler
  awaits answer or fail.  None of what ends windows and blocks: the requests do not need it.
* Lifecycle: weak fairness of the steps of a shutdown and of a cron run, of the five-minute
  schedule, of ioredis' retries and of the pod's restart.  None of outages and recoveries: the
  liveness properties state which outages they assume to last or to be over.

## 5. Proofs

Eight modules of proofs, one beside each component and two beside `Users`; they hold for any constants that satisfy the named
assumptions of the modules, so for any number of instances, messages, subscriptions, hooks, pulls,
users, requests, callers and faults.  Each shows an inductive invariant (`...Inv`) that the
run of the component checks as well, and then what follows from it.

**Queue.**  `QueueInvariant` shows `Spec => []QueueInv`.  `NoMessageLost` and `NoOvertaking` are not
inductive: that a deletion is harmless needs `DeletingIsSettled` (whatever is about to be deleted was handled or
stored), for the loop and for the recoveries; that a started message has no predecessor left behind
needs `BatchStartsAtHead` (everything sent before a batch and not in it was tried or kept) with
`CurrentIsNext` (the loop works on the earliest message left) and `RanksInOrder` (ranks are given once).
`OneAtATime` says what holds while nothing failed: the batch of an instance is in flight and in no other's, and what is
settled and still queued is the message being deleted.  `EarlierAreGone` is why switches keep their order: a message that
is always handled is deleted before a later one begins, so an instance that applied a switch finds no earlier one, in its
batch or in the queue.  `TypeStep`, `FlowStep`, `EarlierStep` and `AloneStep` are the parts of the step, one case per action.
From it follow `TypeCorrect`, `MessagesAreNotLost`, `MessagesDoNotOvertake`, `NothingIsRepeated`,
`SwitchesNeverGoBack` (an action property), and `QueueImplementsDelivery`: every step of the queue is a
step of `MessageDelivery` or a stutter, the invariant being needed for `Remove`.

**Life cycle.**  `ShutdownInvariant` shows `Spec => []ShutdownInv`, whose parts are proved one lemma
each: `TypeStep`; `ServesStep` (after a destroy hook nothing serves, so nobody is let in: `NobodyIsLetIn`
alone says nothing of `serving` and is not inductive); `DrainStep` (the pool drains in exactly one
shutdown); `ExitStep`; and `OrderStep` (while `clean`, a shutdown that has come past a store has
closed it, because no cron run is left to reopen it and none of the stores was skipped).  `CronNext`
and `CronStep` say what a cron run leaves alone.  From it follow `TypeCorrect`, `NobodyGetsIn` and
`ExitsGracefully`.

**Subscriptions.**  `SubscriptionsInvariant` shows `Spec => []SubscriptionsInv`.  The invariant has a fact
about operations (`OpFits`, `DocFits`: what each knows at its step), one about the history (`RacesAreNoted`: two
operations on one id at one time are in `raced`), and seven about each id, each under the races it
tolerates: `Single` (why one save inserts), `Kept` (why an announced document stays), `Removed` (deletions find the one
document and nothing saves after them), `Writes` (what a save that only readers overlap knows of its document), `Cached` (a
save caches what it wrote, a reader what is there), `Roomed`, and `Expires` (an entry without a
time to live has an operation about to set it).  Two
lemmas carry the step: `Untouched` (the facts of an id no step is about stay) and `OperationMoves` (the
facts about operations, when one of them moves), so that each action is argued for its own id.  A write of an entity
with another id touches two ids; that both are marked is what `Alike` in `OpFits` and `DocFits` says, and a marked id is one
of which the facts ask little: `Untouched` therefore takes an id that keeps its documents or is marked.
From it follow `DocumentsAreUnique`, `DeletedStaysGone`, `CacheAndStoreAgree`, `RoomAndStoreAgree` and
`AnnouncedStaysStored`: every invariant of the run.

**Webhooks.**  `WebhookInvariant` shows `Spec => []WebhookInv`: `CallFits` (what a pull deletes is due and was requested
if it can be, or is gone; what it requested is gone once its deletions were answered), that a hook which
is not due is kept, and `OneAfterTheOther` (without overlap or failure a requested hook is gone or
being deleted, so that a later pull does not see it).  `FitsAsTheWorldMoves` shows that `CallFits` survives
what others do to hooks, requests and due dates; `PullMoves` what a pull's own step must provide.  From it
follow `ResolvedMeansDone`, `AloneNothingIsRequestedTwice` and, with the step that removes a hook
examined once more, `NoHookIsLostUnasked`.

**Users.**  `UsersInvariant` shows `Spec => []UsersInv`, in three parts.  `TablesInv` (`UsersProofs`): types, `DeletedInOrder` (a user that
bears deletedBy has no live preference), `StepsFit` (what a request at a step has established), `OneCreator`, and
`HalvesAreContinued` (while nothing failed, what was done by half has a request that is at the other
half).  Steps that only read are dealt with by `MovingKeepsInv`, those that write row or preference one
by one.  From it follow `PreferencesFollowUsers` and `DeletionsAreForGood`, an action property.

`RacesInv` (`UsersRaceProofs`) is about requests that did not race: `Knows` says what such a request has
read and is still so when it decides on it.  That needs the note itself to be right: `RacesAreNoted`
(two requests on one user or e-mail, one of which writes, are marked), and for requests that are told
an e-mail and meet a user by it, `HoldersAreNoted`, which rests on `TokensNameUsers` (who is entitled
to write a user names one who is there).  A step of `p` then either marks `q` or leaves alone what `q`
knows (`SparedKnow`, `WritersSpare`).  From it follow `DuplicatesAreConflicts`, `UpdatesTakeEffect`, and the action properties
`TokensAreOfTheirUsers` and `OnlyOwnersWrite`, whose step is the one that issues or writes.

With `EmailsAreUnique` follows `TablesImplementDirectory`: `StepsOfTables` reduces every step to a change of one row of one
table, `DirectoryStep` maps each to `Open`, `Alter`, `Close`, `Bar` or a stutter of `Accounts`.  The steps of the whole use
case are not one step of `Accounts`; the insertion and the deletion of the preference are the
points where an account appears and disappears, whatever fails before or after.

**Requests.**  `CountsAreRight` shows `Spec => []RequestsInv`: what was let through is still counted, and a key
over its limit is blocked.  `LimitsHold` adds that an admission was counted when it was made (`Admissions`);
`RefusalsAreDeserved` that each hit belongs to a request that was sent by that client to that endpoint.
`FailuresAreReported` rests on what the routes can throw (`RouteTypes`) and on what each filter makes of every exception
(`ThrowReports`).

**Integrations.**  `CallsAreAccounted` shows `Spec => []IntegrationsInv`.  `CallsInv` is `Deduplicated` (an id in `seen` has one
message) and `Accounted` (how an attempt ended tells what the service did); from it follow
`MessagesAreDispatchedOnce` and, with one more step per action, `AnswersCanBeTrusted`, which excepts the callers
that look at the status only and got an empty success (`Credulous`); `FieldsWanted`
says that dispatches and uploads are none of them.  `FilesInv` adds the bucket and
the downloads: `ObjectsAreOfUploads` (an object is that of an upload after which no other began and had its
effect) and `DownloadsAreFresh` (what a download has read and what is to come are together one object, and
fresh).  `FilesStay` deals with all steps that leave the bucket alone; it needs that `before` relates
those who are done to those who have begun, so that nobody becomes an overwriter of what a
download holds.  `EffectKeepsFiles` is the step of the service, which uses `AnswersAreTrue`: an upload that
was answered had its effect.  `ChunkMoves` is the lemma on sequences that reading a chunk needs.  From it
follows `DownloadsServeFreshFiles`.

**Only model-checked.**  Liveness (`EventuallyDrained`, `DueHookIsRequested`, `UnservedAreCut`, `ConnectionsRecover`, `ShutdownEnds`,
`EveryRequestEnds`, the liveness half of `DeliverySpec`): fairness and ENABLED are out of the prover's
reach.  Every other property of the passing runs is a theorem.

## 6. What the code does that one may not expect

Four disagreements between the code and what the repository says of it are `violation` runs with a finding each:

* `list()` of subscriptions, when the cache holds an entry, hands key-value pairs to the entity, and
  the answer has no ids (`app/subscription/services/Subscription.service.ts:113`).
* `selectSoftDeleted` lists nobody, because TypeORM excludes soft-deleted rows from every find
  (`app/user/repositories/user/user.query.ts:48`).
* `DISABLE_LOGIN` has no effect: `ResponseInterceptor` is request scoped, which makes `UserController` one per
  request, and a controller built for a request starts with the login enabled and listens to nothing
  (`app/user/api/controllers/User.controller.ts:64`).
* `DISABLE_ALL_ROUTES` switched back on says it restarts the HTTP server; Fastify refuses and the
  unhandled rejection closes the application (`core/start/Lifecycle.service.ts:121`).

Other behaviour the properties had to be weakened for, each a conjunct of a property:

* Two overlapping saves make two documents (`OneDocument`); a save that overlaps a delete revives the
  subscription (`DeletedIsGone`); a reader that overlaps a write leaves a stale cache entry
  (`CacheMatchesStore`).
* A reconnect message with another `subscriptionId` in its `dataValues` or `listen` is stored under that id.  Alone and
  without a failure it takes the announced socket's document away, leaves its cache entry and its place in the room without
  one, and gives the other id a second document or brings it back after its deletion (`renamed` in all five
  properties of subscriptions).
* The operations of the AWS clients that answer true (`deleteQueue`, `deleteMessage`, the deletion of buckets and users
  and their like) take an empty success, sent by something in between, for the service's (`AnswersAreTrue`).
* A user whose preference could not be inserted can log in but cannot be read, changed or deleted; an
  e-mail of a deleted user is refused with an internal error (`DuplicateIsConflict`).
* Overlapping pulls request a hook twice (`NoDuplicateAlone`); hooks are deleted before the answer
  of their receiver is known.
* The second shutdown a signal starts exits while the first still drains the pool (`GracefulExit`).
* Two dispatches with equal payloads in one second: the queue drops the second, and the caller is answered an
  id all the same, whatever schema or title it had (`DispatchedOnce` speaks of the twin).
* `userSignUp` throws after a sign-up that awaits its confirmation, `deleteFile` after the deletion of an
  object that keeps no versions (`AnswersAreTrue` leaves both out).
* An empty upload is answered with a path and no tag, and a download from there serves the older file; `a.b.txt`
  and `a-b.txt` share a path; a name without an extension ends in `.undefined`; names that are not ASCII lose
  a bit of every byte (`FreshFiles` is stated by path, not by name).
* An outage of MongoDB is not noticed by the cron job (`UnservedAreCut` leaves it out).

Met while modelling, and reproduced by the models without a property of their own: `createConnection` and
`updateConnection` of GraphQL store the flag `newConnectionsListen` as false whatever they are sent, for the constructor reads
`newConnections` (`domain/entities/Subscription.entity.ts:83`); a token that does not verify is
answered 498 where the documentation decorator announces 403 (`api/decorators/exceptionsResponse.decorator.ts:51`);
a user or file that is not found is answered 500; `PUT /hook` without a response schema ends in a
TypeError and 500; a socket that connects again counts under a new key of the throttlers; page 0
with a limit lists everybody (`user.query.ts:84`, where pages count from 0); without a limit `totalPages`
is the number of users; without `sortBy` any rows may make a page.

## 7. What is not modelled

* The contents of messages, hooks and users, validation schemas, hashing and JWT encoding: opaque values, but for the
  id and the flag a reconnect message carries.
* Sentry's decorator of the exceptions filter, which reports some exceptions a second time.
* The delivery of broadcasts to sockets: each instance emits to the sockets it holds itself, and the event emitter does not
  leave the process, so there is nothing to order.
* `getMessages` of the SQS client, signed URLs, content types, the operations of the Mongo client on many documents or on
  collections, and `executeQuery`: no caller in the application.
* The two queries of `findAndCount` are one step: rows and total may differ by what commits between them.
* The parameters of the AWS commands: the clients pass them on.
* Masks, recursive copies, dates: pure functions of values the models leave opaque.
* Configuration, logging, response formatting, development mocks: no decision of the modelled
  parts depends on them.

## 8. Plan

In this order:

1. Joint modules: queue with webhooks (a hook is requested for every domain event that was settled as
   handled); shutdown with subscriptions (the disconnects of the destroy hook against closing stores).
2. The safety of that joint module: no domain event is settled as handled while a hook that was due is neither requested nor kept.
3. The pure helpers (masks, recursive copy and comparison) as functions against a reference definition.
