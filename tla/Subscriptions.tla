--------------------------- MODULE Subscriptions ---------------------------
(***************************************************************************)
(* Subscriptions of websocket clients.  SubscriptionService keeps one in a *)
(* Mongo collection (no unique index) and a copy in Redis; the websocket   *)
(* handlers, GraphQL and the HTTP / SSE readers run its operations, each a *)
(* chain of awaited calls that interleave with those of the others.        *)
(***************************************************************************)
EXTENDS Naturals, FiniteSets

CONSTANTS
    Sub,          \* subscription ids: socket ids
    Doc,          \* bound: _ids of the documents that exist or are referred to at one time
    Proc,         \* bound: operations in progress at one time
    Run,          \* Run[s]: the kinds of operation that run on s
    Carried,      \* the ids a reconnect message may carry instead of its socket's
    MaxRaces,     \* bound: kinds of race and failure, over all ids, in a behaviour
    MaxFaults,    \* bound: calls that throw in a behaviour
    None          \* no document, no cache entry

Entity == [sub : Sub \cup {None}, listen : BOOLEAN]
Entry == [listen : BOOLEAN, ttl : BOOLEAN]

ASSUME SubscriptionAssumption ==
    /\ None \notin Sub \cup Doc \cup Entity \cup Entry
    /\ Carried \subseteq Sub \cup {None}
    /\ MaxRaces \in Nat
    /\ MaxFaults \in Nat

VARIABLES
    docs,         \* docs[d]: the subscription document with _id d, or None
    cache,        \* cache[s]: the Redis entry of s, or None
    socket,       \* socket[s]: "new", "connected" or "closed"
    room,         \* sockets in the NEW_CONNECTIONS room
    announced,    \* sockets a NEW_CONNECTION message was dispatched for
    op,           \* op[p]: the operation p executes
    raced,        \* raced[s]: the kinds of overlap and failure s has been through
    gone,         \* gone[s]: delete(s) has completed and no save(s) has begun since
    listed,       \* what list() returned, until another operation begins
    faults        \* faults so far

wsVars == <<socket, room, announced>>
historyVars == <<raced, gone, faults>>
vars == <<docs, cache, wsVars, op, historyVars, listed>>

Saves == {"connect", "reconnect", "put"}
Deletes == {"disconnect", "remove"}
Kinds == Saves \cup Deletes \cup {"get", "list"}
Steps == {"idle", "find", "write", "reread", "cache", "expire", "return",
          "erase", "uncache", "lookup", "fetch", "keys", "findMany"}
Races == {"saves", "saveDelete", "readWrite", "foreign", "renamed", "fault", "unexpired"}

(* sub is the id an operation works on, as the id the entity it stores bears. *)
Operation == [kind : Kinds, sub : Sub \cup {None}, as : Sub \cup {None}, step : Steps,
              doc : Doc \cup {None}, listen : BOOLEAN]

TypeOK ==
    /\ docs \in [Doc -> Entity \cup {None}]
    /\ cache \in [Sub -> Entry \cup {None}]
    /\ socket \in [Sub -> {"new", "connected", "closed"}]
    /\ room \subseteq Sub
    /\ announced \subseteq Sub
    /\ op \in [Proc -> Operation]
    /\ raced \in [Sub -> SUBSET Races]
    /\ gone \in [Sub -> BOOLEAN]
    /\ listed \subseteq Entity
    /\ faults \in 0..MaxFaults

Idle == [kind |-> "get", sub |-> None, as |-> None, step |-> "idle",
         doc |-> None, listen |-> FALSE]

Init ==
    /\ docs = [d \in Doc |-> None]
    /\ cache = [s \in Sub |-> None]
    /\ socket = [s \in Sub |-> "new"]
    /\ room = {}
    /\ announced = {}
    /\ op = [p \in Proc |-> Idle]
    /\ raced = [s \in Sub |-> {}]
    /\ gone = [s \in Sub |-> FALSE]
    /\ listed = {}
    /\ faults = 0

DocsOf(s) == {d \in Doc : docs[d] # None /\ docs[d].sub = s}
Unused == {d \in Doc : docs[d] = None /\ \A p \in Proc : op[p].doc # d}
Active(s) == {p \in Proc : op[p].step # "idle" /\ op[p].sub = s}

(***************************************************************************)
(* Beginning an operation.  raced records which kinds of operations on the *)
(* same id have been in progress together, and both ids of an operation    *)
(* that stores another id than its own; it does not influence the code.    *)
(***************************************************************************)
Race(k, j) ==
    CASE k \in Saves /\ j \in Saves -> {"saves"}
      [] k \in Deletes /\ j \in Deletes -> {}
      [] k = "get" /\ j = "get" -> {}
      [] k = "get" \/ j = "get" -> {"readWrite"}
      [] OTHER -> {"saveDelete"}

Clashes(k, s) ==
    (UNION {Race(k, op[q].kind) : q \in Active(s)})
        \cup IF k \in {"put", "remove"} THEN {"foreign"} ELSE {}

(* Saves that may insert: Doc holds a document for each. *)
Inserting == {p \in Proc : op[p].kind \in Saves /\ op[p].doc = None}

Bounded == raced' = raced \/ Cardinality({r \in Sub \X Races : r[2] \in raced'[r[1]]}) <= MaxRaces

Begin(p, k, s, as, step, listen) ==
    /\ op[p] = Idle
    /\ k \in Run[s]
    /\ k \in Saves => Cardinality(Unused) > Cardinality(Inserting)
    /\ op' = [op EXCEPT ![p] = [kind |-> k, sub |-> s, as |-> as, step |-> step,
                                doc |-> None, listen |-> listen]]
    /\ raced' = [t \in Sub |-> raced[t]
                    \cup (IF t = s THEN Clashes(k, s) ELSE {})
                    \cup (IF as # s /\ t \in {s, as} THEN {"renamed"} ELSE {})]
    /\ Bounded
    /\ gone' = [gone EXCEPT ![s] = @ /\ k \notin Saves]
    /\ listed' = {}
    /\ UNCHANGED <<docs, cache, faults>>

(* Mutant of Connect: the new connection is announced without awaiting save. *)
ConnectAnnouncing(p, s) ==
    /\ socket[s] = "new"
    /\ socket' = [socket EXCEPT ![s] = "connected"]
    /\ announced' = announced \cup {s}
    /\ UNCHANGED room
    /\ Begin(p, "connect", s, s, "find", FALSE)

(* handleConnection: save of a new id, not listening to new connections. *)
Connect(p, s) ==
    /\ socket[s] = "new"
    /\ socket' = [socket EXCEPT ![s] = "connected"]
    /\ UNCHANGED <<room, announced>>
    /\ Begin(p, "connect", s, s, "find", FALSE)

(* handleReconnect: save of what the client sent.  The handler forces the id
   of the socket on the message, but the entity prefers an id in the message's
   listen or dataValues: any socket's, or one of no socket (None).         *)
Reconnect(p, s, as, listen) ==
    /\ socket[s] = "connected"
    /\ UNCHANGED wsVars
    /\ Begin(p, "reconnect", s, as, "find", listen)

(* handleDisconnect: the socket leaves the room, then delete. *)
Disconnect(p, s) ==
    /\ socket[s] = "connected"
    /\ socket' = [socket EXCEPT ![s] = "closed"]
    /\ room' = room \ {s}
    /\ UNCHANGED announced
    /\ Begin(p, "disconnect", s, s, "find", FALSE)

(* GraphQL createConnection / updateConnection and removeConnection, and the
   readers: GraphQL findOne, the SSE polling.                              *)
Put(p, s, listen) == UNCHANGED wsVars /\ Begin(p, "put", s, s, "find", listen)
Remove(p, s) == UNCHANGED wsVars /\ Begin(p, "remove", s, s, "find", FALSE)
Get(p, s) == UNCHANGED wsVars /\ Begin(p, "get", s, s, "lookup", FALSE)

List(p, useCache) ==
    /\ op[p] = Idle
    /\ \E s \in Sub : "list" \in Run[s]
    /\ op' = [op EXCEPT ![p] = [Idle EXCEPT !.kind = "list", !.step = "keys",
                                            !.listen = useCache]]
    /\ listed' = {}
    /\ UNCHANGED <<docs, cache, wsVars, historyVars>>

(***************************************************************************)
(* Moving on inside an operation.                                          *)
(***************************************************************************)
At(p, step) == op[p].step = step
Goto(p, step) == op' = [op EXCEPT ![p].step = step]
Return(p) == op' = [op EXCEPT ![p] = Idle]

(* Mutant of Find: save does not look for the document it updates. *)
FindNothing(p) ==
    /\ At(p, "find")
    /\ LET next == IF op[p].kind \in Saves THEN "write" ELSE "erase"
       IN  \E d \in IF next = "write" \/ DocsOf(op[p].sub) = {} THEN {None}
                    ELSE DocsOf(op[p].sub) :
              op' = [op EXCEPT ![p].step = next, ![p].doc = d]
    /\ UNCHANGED <<docs, cache, wsVars, historyVars, listed>>

(* findOne({subscriptionId}) of save and delete: any of the documents. *)
Find(p) ==
    /\ At(p, "find")
    /\ LET next == IF op[p].kind \in Saves THEN "write" ELSE "erase"
           found == DocsOf(op[p].sub)
       IN  \E d \in IF found = {} THEN {None} ELSE found :
              op' = [op EXCEPT ![p].step = next, ![p].doc = d]
    /\ UNCHANGED <<docs, cache, wsVars, historyVars, listed>>

(* save: insertOne, or updateOne by _id, which matches nothing when the
   document was deleted meanwhile.  The entity takes the flag from a field
   named newConnections, which the GraphQL inputs do not have.             *)
Written(p) == [sub |-> op[p].as, listen |-> op[p].listen /\ op[p].kind # "put"]

Insert(p) ==
    /\ At(p, "write")
    /\ op[p].doc = None
    /\ \E d \in Unused :
          /\ docs' = [docs EXCEPT ![d] = Written(p)]
          /\ op' = [op EXCEPT ![p].step = "reread", ![p].doc = d]
    /\ UNCHANGED <<cache, wsVars, historyVars, listed>>

Update(p) ==
    /\ At(p, "write")
    /\ op[p].doc # None
    /\ docs' = [docs EXCEPT ![op[p].doc] = IF @ = None THEN None ELSE Written(p)]
    /\ Goto(p, "reread")
    /\ UNCHANGED <<cache, wsVars, historyVars, listed>>

(* Mutant of Reread: a document that was updated is not cached again. *)
RereadNew(p) ==
    /\ At(p, "reread")
    /\ LET found == docs[op[p].doc]
       IN  op' = [op EXCEPT ![p].step = IF found = None \/ cache[op[p].sub] # None
                                        THEN "return" ELSE "cache",
                            ![p].listen = found # None /\ found.listen]
    /\ UNCHANGED <<docs, cache, wsVars, historyVars, listed>>

(* save: get by _id.  A document that is gone gives an empty entity, which
   is not cached and does not listen.                                      *)
Reread(p) ==
    /\ At(p, "reread")
    /\ LET found == docs[op[p].doc]
       IN  op' = [op EXCEPT ![p].step = IF found = None THEN "return" ELSE "cache",
                            ![p].listen = found # None /\ found.listen]
    /\ UNCHANGED <<docs, cache, wsVars, historyVars, listed>>

(* get: the cache entry, else findOne, else notFound. *)
Lookup(p) ==
    /\ At(p, "lookup")
    /\ LET entry == cache[op[p].sub]
       IN  IF entry # None
           THEN op' = [op EXCEPT ![p].step = "cache", ![p].listen = entry.listen]
           ELSE Goto(p, "fetch")
    /\ UNCHANGED <<docs, cache, wsVars, historyVars, listed>>

Fetch(p) ==
    /\ At(p, "fetch")
    /\ \/ DocsOf(op[p].sub) = {} /\ Return(p)
       \/ \E d \in DocsOf(op[p].sub) :
             op' = [op EXCEPT ![p].step = "cache", ![p].listen = docs[d].listen]
    /\ UNCHANGED <<docs, cache, wsVars, historyVars, listed>>

(* Mutant of CacheSet: no time to live is set. *)
CacheSetForEver(p) ==
    /\ At(p, "cache")
    /\ cache' = [cache EXCEPT ![op[p].sub] = [listen |-> op[p].listen, ttl |-> FALSE]]
    /\ Goto(p, "return")
    /\ UNCHANGED <<docs, wsVars, historyVars, listed>>

(* saveOnCache: redis.set, which drops the old time to live, then expire. *)
CacheSet(p) ==
    /\ At(p, "cache")
    /\ cache' = [cache EXCEPT ![op[p].sub] = [listen |-> op[p].listen, ttl |-> FALSE]]
    /\ Goto(p, "expire")
    /\ UNCHANGED <<docs, wsVars, historyVars, listed>>

CacheExpire(p) ==
    /\ At(p, "expire")
    /\ LET s == op[p].sub
       IN  cache' = IF cache[s] = None THEN cache ELSE [cache EXCEPT ![s].ttl = TRUE]
    /\ Goto(p, "return")
    /\ UNCHANGED <<docs, wsVars, historyVars, listed>>

(* Once a delete returns and no save is in progress, the id is to be gone. *)
NoteGone(p) ==
    gone' = [gone EXCEPT ![op[p].sub] =
        @ \/ (op[p].kind \in Deletes /\ \A q \in Active(op[p].sub) : op[q].kind \notin Saves)]

(* Mutant of Finish: a socket that stops listening is left in the room. *)
FinishJoining(p) ==
    /\ At(p, "return")
    /\ LET s == op[p].sub
       IN  /\ room' = IF op[p].kind = "reconnect" /\ op[p].listen THEN room \cup {s} ELSE room
           /\ announced' = IF op[p].kind = "connect" THEN announced \cup {s} ELSE announced
    /\ NoteGone(p)
    /\ Return(p)
    /\ UNCHANGED <<docs, cache, socket, raced, faults, listed>>

(* The operation returns to its caller: saveAndDispatchConnection dispatches
   NEW_CONNECTION, updateConnection joins or leaves the room, whether or not
   the socket is still there.                                              *)
Finish(p) ==
    /\ At(p, "return")
    /\ LET s == op[p].sub
       IN  /\ room' = IF op[p].kind # "reconnect" THEN room
                      ELSE IF op[p].listen THEN room \cup {s} ELSE room \ {s}
           /\ announced' = IF op[p].kind = "connect" THEN announced \cup {s} ELSE announced
    /\ NoteGone(p)
    /\ Return(p)
    /\ UNCHANGED <<docs, cache, socket, raced, faults, listed>>

(* Mutant of Erase: the cache entry is left until it expires. *)
EraseUncached(p) ==
    /\ At(p, "erase")
    /\ docs' = IF op[p].doc = None THEN docs ELSE [docs EXCEPT ![op[p].doc] = None]
    /\ Goto(p, "return")
    /\ UNCHANGED <<cache, wsVars, historyVars, listed>>

(* delete: deleteOne of the document found, then always the cache entry. *)
Erase(p) ==
    /\ At(p, "erase")
    /\ docs' = IF op[p].doc = None THEN docs ELSE [docs EXCEPT ![op[p].doc] = None]
    /\ Goto(p, "uncache")
    /\ UNCHANGED <<cache, wsVars, historyVars, listed>>

Uncache(p) ==
    /\ At(p, "uncache")
    /\ cache' = [cache EXCEPT ![op[p].sub] = None]
    /\ Goto(p, "return")
    /\ UNCHANGED <<docs, wsVars, historyVars, listed>>

(* list: listFromCache always runs; its {key, value} pairs go through the
   SubscriptionEntity constructor, which finds no subscriptionId and no
   newConnections in them.                                                 *)
ListKeys(p) ==
    /\ At(p, "keys")
    /\ IF op[p].listen /\ \E s \in Sub : cache[s] # None
       THEN listed' = {[sub |-> None, listen |-> FALSE]} /\ Return(p)
       ELSE Goto(p, "findMany") /\ UNCHANGED listed
    /\ UNCHANGED <<docs, cache, wsVars, historyVars>>

ListDocs(p) ==
    /\ At(p, "findMany")
    /\ listed' = {docs[d] : d \in {e \in Doc : docs[e] # None}}
    /\ Return(p)
    /\ UNCHANGED <<docs, cache, wsVars, historyVars>>

(***************************************************************************)
(* The environment: an awaited call throws (or the instance crashes) and   *)
(* the operation ends where it is; a time to live passes.                  *)
(***************************************************************************)
Throw(p) ==
    /\ op[p].step \notin {"idle", "return"}
    /\ faults < MaxFaults
    /\ faults' = faults + 1
    /\ raced' = [s \in Sub |-> raced[s]
                    \cup (IF s = op[p].sub THEN {"fault"} ELSE {})
                    \cup (IF s = op[p].sub /\ At(p, "expire") THEN {"unexpired"} ELSE {})]
    /\ Bounded
    /\ Return(p)
    /\ UNCHANGED <<docs, cache, wsVars, gone, listed>>

Elapse(s) ==
    /\ cache[s] # None
    /\ cache[s].ttl
    /\ cache' = [cache EXCEPT ![s] = None]
    /\ UNCHANGED <<docs, wsVars, op, historyVars, listed>>

Start(p, s) ==
    \/ Connect(p, s) \/ Disconnect(p, s) \/ Remove(p, s) \/ Get(p, s)
    \/ \E listen \in BOOLEAN :
          Put(p, s, listen) \/ \E as \in {s} \cup Carried : Reconnect(p, s, as, listen)

Advance(p) ==
    \/ Find(p) \/ Insert(p) \/ Update(p) \/ Reread(p) \/ Lookup(p) \/ Fetch(p)
    \/ CacheSet(p) \/ CacheExpire(p) \/ Finish(p) \/ Erase(p) \/ Uncache(p)
    \/ ListKeys(p) \/ ListDocs(p)

Next ==
    \/ \E p \in Proc, s \in Sub : Start(p, s)
    \/ \E p \in Proc : Advance(p) \/ Throw(p) \/ \E useCache \in BOOLEAN : List(p, useCache)
    \/ \E s \in Sub : Elapse(s)

Spec == Init /\ [][Next]_vars

(***************************************************************************)
(* Properties.                                                             *)
(***************************************************************************)

(* Two ids of which one may have been stored under the other: equal, or both
   noted as such (None is the id of no socket).                            *)
Renamed(x) == x \in Sub => "renamed" \in raced[x]
Alike(x, y) == x = y \/ (Renamed(x) /\ Renamed(y))

(* What the program knows about an operation in progress: the steps its kind
   takes, the id it stores, a document it refers to, which is its own as long
   as it exists, the socket it serves and the history it left.             *)
OpFits(o) ==
    \/ o = Idle
    \/ /\ o.kind \in Saves /\ o.sub \in Sub
       /\ \/ o.step = "find" /\ o.doc = None
          \/ o.step = "write"
          \/ o.step \in {"reread", "cache", "expire", "return"} /\ o.doc # None
       /\ o.as = o.sub \/ o.kind = "reconnect"
       /\ Alike(o.as, o.sub)
       /\ o.kind = "put" => "foreign" \in raced[o.sub]
       /\ o.kind # "put" => socket[o.sub] # "new"
    \/ /\ o.kind \in Deletes /\ o.sub \in Sub
       /\ o.step \in {"find", "erase", "uncache", "return"}
       /\ o.kind = "remove" => "foreign" \in raced[o.sub]
       /\ o.kind = "disconnect" => socket[o.sub] = "closed"
    \/ /\ o.kind = "get" /\ o.sub \in Sub /\ o.doc = None
       /\ o.step \in {"lookup", "fetch", "cache", "expire", "return"}
    \/ o.kind = "list" /\ o.sub = None /\ o.doc = None /\ o.step \in {"keys", "findMany"}

DocFits(o) == o.doc # None => docs[o.doc] = None \/ Alike(docs[o.doc].sub, o.sub)

(* Operations on one id that are in progress together are in its history. *)
RacesAreNoted ==
    \A p, q \in Proc : p # q /\ op[p].sub = op[q].sub /\ op[p].sub \in Sub =>
        Race(op[p].kind, op[q].kind) \subseteq raced[op[p].sub]

Saving(s) == {p \in Active(s) : op[p].kind \in Saves}
Deleting(s) == {p \in Active(s) : op[p].kind \in Deletes}
Getting(s) == {p \in Active(s) : op[p].kind = "get"}
Stored(s, listen) == \E d \in DocsOf(s) : docs[d].listen = listen
Apart(s, races) == raced[s] \cap races = {}

(* Why there is one document: a save that found none is the only save, and
   there is none until it inserts.                                         *)
Single(s) ==
    Apart(s, {"saves", "renamed"}) =>
        /\ \A d, e \in DocsOf(s) : d = e
        /\ \A p \in Saving(s) : op[p].step = "write" /\ op[p].doc = None => DocsOf(s) = {}

(* Why an announced connection is stored: until its socket closes, only callers
   of GraphQL delete its document.                                         *)
Kept(s) ==
    Apart(s, {"foreign", "renamed"}) =>
        /\ socket[s] = "new" => DocsOf(s) = {} /\ s \notin announced
        /\ socket[s] = "connected" =>
              /\ s \in announced => DocsOf(s) # {}
              /\ \A p \in Active(s) : op[p].doc # None => docs[op[p].doc] # None

(* Why a deleted id is gone: its deletions find the one document, and nothing
   saves or caches it before the next save.                                *)
Removed(s) ==
    /\ gone[s] => Saving(s) = {}
    /\ Apart(s, {"saves", "saveDelete", "renamed"}) =>
        /\ gone[s] => DocsOf(s) = {}
        /\ \A p \in Deleting(s) :
              /\ op[p].step = "erase" => DocsOf(s) \subseteq {op[p].doc}
              /\ op[p].step \in {"uncache", "return"} => DocsOf(s) = {}
        /\ "readWrite" \notin raced[s] =>
              /\ gone[s] => cache[s] = None /\ \A p \in Getting(s) : op[p].step \in {"lookup", "fetch"}
              /\ \A p \in Deleting(s) : op[p].step = "return" => cache[s] = None

(* What a save that overlaps only readers knows: its document is there and,
   once read again (a put's flag is lost in between), says what it says.   *)
Writes(s) ==
    raced[s] \subseteq {"foreign", "readWrite"} =>
        \A p \in Saving(s) : op[p].doc # None =>
            /\ docs[op[p].doc] # None
            /\ \/ At(p, "write")
               \/ At(p, "reread") /\ op[p].kind = "put"
               \/ docs[op[p].doc].listen = op[p].listen

(* Why cache and store agree: a save caches what it wrote, a reader what is
   there, and between two operations nothing changes either.               *)
Cached(s) ==
    raced[s] \subseteq {"foreign"} =>
        /\ \A p \in Getting(s) : op[p].step = "cache" => Stored(s, op[p].listen)
        /\ \/ cache[s] = None
           \/ Stored(s, cache[s].listen)
           \/ \E p \in Saving(s) : op[p].step \in {"reread", "cache"}
           \/ \E p \in Deleting(s) : op[p].step = "uncache"

(* Why the room agrees with the store: a first connection does not listen, a
   reconnection sets both, a disconnection clears both.                    *)
Roomed(s) ==
    raced[s] \subseteq {"readWrite"} =>
        /\ \A p \in Deleting(s) : s \notin room
        /\ \A p \in Saving(s) : op[p].kind = "connect" =>
              ~op[p].listen /\ s \notin room /\ (op[p].doc = None => DocsOf(s) = {})
                            /\ (op[p].step = "write" => op[p].doc = None)
        /\ \/ s \in room <=> Stored(s, TRUE)
           \/ \E p \in Saving(s) : op[p].kind = "reconnect" /\ op[p].step \notin {"find", "write"}
           \/ \E p \in Deleting(s) : op[p].step \in {"find", "erase"}

(* No cache entry lives for ever: one without a time to live has an operation
   about to set it, unless a call failed right between set and expire.     *)
Expires(s) ==
    cache[s] # None /\ "unexpired" \notin raced[s] =>
        cache[s].ttl \/ \E p \in Active(s) : At(p, "expire")

IdFits(s) ==
    /\ Single(s) /\ Kept(s) /\ Removed(s) /\ Writes(s) /\ Cached(s) /\ Roomed(s) /\ Expires(s)
    /\ socket[s] = "new" => s \notin room

(* The invariant the theorems rest on: state well typed, operations and their
   histories fit, and what each id may rely on, entries that expire included. *)
SubscriptionsInv ==
    /\ TypeOK
    /\ \A p \in Proc : OpFits(op[p]) /\ DocFits(op[p])
    /\ RacesAreNoted
    /\ \A s \in Sub : IdFits(s)

(* An id gets a second document only when two saves of it overlapped or a
   reconnect message stored an id under another: no deletion, reader, failure,
   expiry or operation on another id makes one.                            *)
OneDocument ==
    \A s \in Sub : Apart(s, {"saves", "renamed"}) => Cardinality(DocsOf(s)) <= 1

(* A deleted subscription is gone: once delete(s) has returned and until the
   next save(s) there is no document, unless a save overlapped another save
   or a delete or a message stored one id under another, and no cache entry
   either unless a reader overlapped too.                                  *)
DeletedIsGone ==
    \A s \in Sub :
        gone[s] /\ Apart(s, {"saves", "saveDelete", "renamed"}) =>
            /\ DocsOf(s) = {}
            /\ ("readWrite" \notin raced[s] => cache[s] = None)

(* A cache entry says what the document says when nothing works on s: only a
   writer overlapping a reader or a writer, a failed call, or a message that
   stores one id under another makes it stale.                             *)
CacheMatchesStore ==
    \A s \in Sub :
        /\ Active(s) = {}
        /\ raced[s] \subseteq {"foreign"}
        /\ cache[s] # None
        => \E d \in DocsOf(s) : docs[d].listen = cache[s].listen

(* The NEW_CONNECTIONS room holds exactly the connected sockets whose document
   listens, when nothing works on s, no writers of s overlapped, none failed,
   no message stored one id under another, and nobody wrote s through GraphQL
   (which leaves the room alone); readers may overlap.                     *)
RoomMatchesStore ==
    \A s \in Sub :
        Active(s) = {} /\ raced[s] \subseteq {"readWrite"} =>
            (s \in room <=> \E d \in DocsOf(s) : docs[d].listen)

(* A connection that was announced to the others and is still open is stored,
   whatever overlaps or fails, unless it was written through GraphQL or a
   message stored it under another id or another under it: the NEW_CONNECTION
   message is dispatched only after save.                                  *)
AnnouncedIsStored ==
    \A s \in announced :
        socket[s] = "connected" /\ Apart(s, {"foreign", "renamed"}) => DocsOf(s) # {}

(* What list() returns are subscriptions, as the documented example of
   GET /subscriptions shows: every element has a subscriptionId.           *)
ListedHaveIds == \A e \in listed : e.sub # None
=============================================================================
