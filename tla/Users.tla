------------------------------- MODULE Users -------------------------------
(***************************************************************************)
(* Users and their preferences, two tables written one after the other and *)
(* never in a transaction.  The use cases (create, get, update, delete,    *)
(* login) are chains of awaited queries; requests interleave between any   *)
(* two of them, on one instance and on several.  Values of attributes no   *)
(* decision depends on (names, documents, themes) are left out.            *)
(*                                                                         *)
(* PostgreSQL and TypeORM are external: queries are atomic, email is       *)
(* unique over all rows, finds skip soft-deleted rows, updates and soft    *)
(* deletions by id do not.                                                 *)
(***************************************************************************)
EXTENDS Naturals, FiniteSets

CONSTANTS
    User,         \* bound: user ids, one for each row there can be
    Email,        \* e-mail addresses
    Password,     \* passwords
    Change,       \* bound: what updates ask for
    Query,        \* bound: what lists ask for, limit and page None when left out
    Proc,         \* bound: requests in progress at one time
    MaxRequests,  \* bound: requests in a behaviour
    MaxFaults,    \* bound: queries that throw and crashes in a behaviour
    None          \* nothing: no row, attribute not given, no token

Row == [email : Email, password : Password, marked : BOOLEAN, deleted : BOOLEAN]
Token == [id : User, email : Email]

ASSUME UserAssumption ==
    /\ None \notin User \cup Email \cup Password \cup Row \cup Token
    /\ User \cap Email = {}
    /\ IsFiniteSet(User)
    /\ Change \subseteq [email : Email \cup {None}, password : Password \cup {None}, prefers : BOOLEAN]
    /\ Query \subseteq [selectSoftDeleted : BOOLEAN, limit : Nat \cup {None}, page : Nat \cup {None}]
    /\ {MaxRequests, MaxFaults} \subseteq Nat

VARIABLES
    account,      \* account[u]: the row of u in users, or None
    preference,   \* preference[u]: the row of u in user_preferences
    tokens,       \* tokens login() has issued
    op,           \* op[p]: the request p executes
    listed,       \* the page the last list() returned, or None
    requests,     \* requests so far
    faults        \* faults so far

vars == <<account, preference, tokens, op, listed, requests, faults>>

PreferenceRow == {"none", "live", "deleted"}
Page == [query : Query, content : SUBSET User, totalItems : Nat, totalPages : Nat]

Kinds == {"idle", "create", "get", "update", "delete", "login"}
Steps == {"idle", "check", "recheck", "insert", "insertPreference", "reread",
          "loadUser", "loadPreference", "writeUser", "checkUser", "writePreference",
          "checkPreference", "deletePreference", "markUser", "deleteUser",
          "find", "load", "issue", "return"}
Answers == {"none", "ok", "conflict", "forbidden", "unauthorized", "internal"}

(* email, password, prefers: what the request asks for; target: the user it
   is about; seen: the e-mail the user had when the request read it; raced:
   another request that writes touched the same user or e-mail meanwhile.  *)
Request == [kind : Kinds, agent : Token \cup {None}, target : User \cup {None},
            email : Email \cup {None}, password : Password \cup {None}, prefers : BOOLEAN,
            seen : Email \cup {None}, step : Steps, answer : Answers, raced : BOOLEAN]

TypeOK ==
    /\ account \in [User -> Row \cup {None}]
    /\ preference \in [User -> PreferenceRow]
    /\ tokens \subseteq Token
    /\ op \in [Proc -> Request]
    /\ listed \in Page \cup {None}
    /\ requests \in 0..MaxRequests
    /\ faults \in 0..MaxFaults

Idle == [kind |-> "idle", agent |-> None, target |-> None, email |-> None,
         password |-> None, prefers |-> FALSE, seen |-> None, step |-> "idle",
         answer |-> "none", raced |-> FALSE]

NewRow(email, password) ==
    [email |-> email, password |-> password, marked |-> FALSE, deleted |-> FALSE]

(* One user is there to begin with: requests other than login need a token. *)
Init ==
    /\ \E u \in User, e \in Email, w \in Password :
          /\ account = [v \in User |-> IF v = u THEN NewRow(e, w) ELSE None]
          /\ preference = [v \in User |-> IF v = u THEN "live" ELSE "none"]
    /\ tokens = {}
    /\ op = [p \in Proc |-> Idle]
    /\ listed = None
    /\ requests = 0
    /\ faults = 0

Exists(u) == u # None /\ account[u] # None
Live(u) == Exists(u) /\ ~account[u].deleted
Deleted(u) == Exists(u) /\ account[u].deleted
LiveWith(email) == {u \in User : Live(u) /\ account[u].email = email}
Taken(email) == \E u \in User : Exists(u) /\ account[u].email = email

(***************************************************************************)
(* A request begins.  AuthGuard lets requests other than login pass with a *)
(* token only; create and get do not ask whose it is.                      *)
(***************************************************************************)
Touches(r) == ({r.target, r.email} \cup IF Exists(r.target) THEN {account[r.target].email} ELSE {})
              \ {None}
Writes == {"create", "update", "delete"}
Meets(r, q) == (r.kind \in Writes \/ q.kind \in Writes) /\ Touches(r) \cap Touches(q) # {}

Begin(p, request) ==
    /\ op[p] = Idle
    /\ requests < MaxRequests
    /\ requests' = requests + 1
    /\ op' = [q \in Proc |->
                 IF q = p THEN [request EXCEPT !.raced = \E o \in Proc : Meets(request, op[o])]
                 ELSE [op[q] EXCEPT !.raced = @ \/ Meets(op[q], request)]]
    /\ UNCHANGED <<account, preference, tokens, listed, faults>>

Create(p, email, password) ==
    Begin(p, [Idle EXCEPT !.kind = "create", !.email = email, !.password = password,
                          !.step = "check"])

Get(p, u) ==
    Begin(p, [Idle EXCEPT !.kind = "get", !.target = u, !.step = "reread"])

Update(p, agent, u, change) ==
    Begin(p, [Idle EXCEPT !.kind = "update", !.agent = agent, !.target = u,
                          !.email = change.email, !.password = change.password,
                          !.prefers = change.prefers, !.step = "loadUser"])

Delete(p, agent, u) ==
    Begin(p, [Idle EXCEPT !.kind = "delete", !.agent = agent, !.target = u, !.step = "loadUser"])

Login(p, email, password) ==
    Begin(p, [Idle EXCEPT !.kind = "login", !.email = email, !.password = password,
                          !.step = "find"])

At(p, step) == op[p].step = step
Goto(p, step) == op' = [op EXCEPT ![p].step = step]
Answer(p, answer) ==
    op' = [op EXCEPT ![p].step = "return", ![p].answer = answer, ![p].agent = None, ![p].seen = None]

(***************************************************************************)
(* CreateUserUseCase and UserService.create: the e-mail is looked up twice,*)
(* then the user and after it the preference are inserted.                 *)
(***************************************************************************)
(* Mutant of CheckEmail: the lookup of the use case is skipped. *)
CheckNothing(p) ==
    /\ At(p, "check")
    /\ Goto(p, "recheck")
    /\ UNCHANGED <<account, preference, tokens, listed, requests, faults>>

CheckEmail(p) ==
    /\ At(p, "check")
    /\ IF LiveWith(op[p].email) # {} THEN Answer(p, "conflict") ELSE Goto(p, "recheck")
    /\ UNCHANGED <<account, preference, tokens, listed, requests, faults>>

(* The service's own conflict is wrapped into an internal error. *)
RecheckEmail(p) ==
    /\ At(p, "recheck")
    /\ IF LiveWith(op[p].email) # {} THEN Answer(p, "internal") ELSE Goto(p, "insert")
    /\ UNCHANGED <<account, preference, tokens, listed, requests, faults>>

Insert(p) ==
    /\ At(p, "insert")
    /\ \/ /\ Taken(op[p].email)
          /\ Answer(p, "internal")
          /\ UNCHANGED account
       \/ /\ ~Taken(op[p].email)
          /\ \E u \in {v \in User : ~Exists(v)} :
                /\ account' = [account EXCEPT ![u] = NewRow(op[p].email, op[p].password)]
                /\ op' = [op EXCEPT ![p].step = "insertPreference", ![p].target = u]
    /\ UNCHANGED <<preference, tokens, listed, requests, faults>>

InsertPreference(p) ==
    /\ At(p, "insertPreference")
    /\ preference' = [preference EXCEPT ![op[p].target] = "live"]
    /\ Goto(p, "reread")
    /\ UNCHANGED <<account, tokens, listed, requests, faults>>

(* create, get and update answer with user and preference, both read anew; the
   services wrap what is not found into an internal error, too.            *)
Reread(p) ==
    /\ At(p, "reread")
    /\ IF Live(op[p].target) /\ preference[op[p].target] = "live"
       THEN Answer(p, "ok") ELSE Answer(p, "internal")
    /\ UNCHANGED <<account, preference, tokens, listed, requests, faults>>

(***************************************************************************)
(* UpdateUserUseCase and DeleteUserUseCase read user and preference, then  *)
(* check the permission on what they read.                                 *)
(***************************************************************************)
LoadUser(p) ==
    /\ At(p, "loadUser")
    /\ IF Live(op[p].target)
       THEN op' = [op EXCEPT ![p].step = "loadPreference", ![p].seen = account[op[p].target].email]
       ELSE Answer(p, "internal")
    /\ UNCHANGED <<account, preference, tokens, listed, requests, faults>>

IsAllowedToManageUser(r) == r.agent.id = r.target /\ r.agent.email = r.seen

(* Mutant of MustUpdate: an e-mail that is given is never a change. *)
MustUpdatePassword(r) == r.password # None \/ r.prefers

(* The password was not read, so a given one always differs; a preference
   that changes counts for the user, too.                                  *)
MustUpdate(r) ==
    \/ r.email # None /\ r.email # r.seen
    \/ r.password # None
    \/ r.prefers

(* Mutant of LoadPreference: the permission is not checked. *)
LoadUnchecked(p) ==
    /\ At(p, "loadPreference")
    /\ IF preference[op[p].target] # "live" THEN Answer(p, "internal")
       ELSE IF op[p].kind = "delete" THEN Goto(p, "deletePreference")
       ELSE IF MustUpdate(op[p]) THEN Goto(p, "writeUser")
       ELSE Goto(p, "reread")
    /\ UNCHANGED <<account, preference, tokens, listed, requests, faults>>

LoadPreference(p) ==
    /\ At(p, "loadPreference")
    /\ IF preference[op[p].target] # "live" THEN Answer(p, "internal")
       ELSE IF ~IsAllowedToManageUser(op[p]) THEN Answer(p, "forbidden")
       ELSE IF op[p].kind = "delete" THEN Goto(p, "deletePreference")
       ELSE IF MustUpdate(op[p]) THEN Goto(p, "writeUser")
       ELSE Goto(p, "reread")
    /\ UNCHANGED <<account, preference, tokens, listed, requests, faults>>

(* What userService.update leaves of a row: what was not given stays. *)
Updated(row, r) ==
    [row EXCEPT !.email = IF r.email = None THEN @ ELSE r.email,
                !.password = IF r.password = None THEN @ ELSE r.password]

(* Mutant of WriteUser: deletedAt and deletedBy of what was read are written back. *)
WriteBack(p) ==
    /\ At(p, "writeUser")
    /\ LET u == op[p].target
       IN  /\ account' = [account EXCEPT ![u] = Updated(NewRow(@.email, @.password), op[p])]
           /\ Goto(p, "checkUser")
    /\ UNCHANGED <<preference, tokens, listed, requests, faults>>

WriteUser(p) ==
    /\ At(p, "writeUser")
    /\ LET u == op[p].target
           row == Updated(account[u], op[p])
       IN  IF row.email # account[u].email /\ Taken(row.email)
           THEN Answer(p, "internal") /\ UNCHANGED account
           ELSE account' = [account EXCEPT ![u] = row] /\ Goto(p, "checkUser")
    /\ UNCHANGED <<preference, tokens, listed, requests, faults>>

(* The repository looks for what it updated: a deleted row is not found. *)
CheckUser(p) ==
    /\ At(p, "checkUser")
    /\ IF ~Live(op[p].target) THEN Answer(p, "internal")
       ELSE IF op[p].prefers THEN Goto(p, "writePreference") ELSE Goto(p, "reread")
    /\ UNCHANGED <<account, preference, tokens, listed, requests, faults>>

WritePreference(p) ==
    /\ At(p, "writePreference")
    /\ Goto(p, "checkPreference")
    /\ UNCHANGED <<account, preference, tokens, listed, requests, faults>>

CheckPreference(p) ==
    /\ At(p, "checkPreference")
    /\ IF preference[op[p].target] = "live" THEN Goto(p, "reread") ELSE Answer(p, "internal")
    /\ UNCHANGED <<account, preference, tokens, listed, requests, faults>>

(* Mutant of DeletePreference: the preference is left to the cascade, which a
   soft deletion does not trigger.                                         *)
KeepPreference(p) ==
    /\ At(p, "deletePreference")
    /\ Goto(p, "markUser")
    /\ UNCHANGED <<account, preference, tokens, listed, requests, faults>>

(* Three soft deletions in a row: the preference, deletedBy, deletedAt. *)
DeletePreference(p) ==
    /\ At(p, "deletePreference")
    /\ preference' = [preference EXCEPT ![op[p].target] = "deleted"]
    /\ Goto(p, "markUser")
    /\ UNCHANGED <<account, tokens, listed, requests, faults>>

MarkUser(p) ==
    /\ At(p, "markUser")
    /\ account' = [account EXCEPT ![op[p].target].marked = TRUE]
    /\ Goto(p, "deleteUser")
    /\ UNCHANGED <<preference, tokens, listed, requests, faults>>

DeleteUser(p) ==
    /\ At(p, "deleteUser")
    /\ account' = [account EXCEPT ![op[p].target].deleted = TRUE]
    /\ Answer(p, "ok")
    /\ UNCHANGED <<preference, tokens, listed, requests, faults>>

(***************************************************************************)
(* LoginUserUseCase: every failure is answered as invalid credentials.     *)
(***************************************************************************)
FindUser(p) ==
    /\ At(p, "find")
    /\ \/ LiveWith(op[p].email) = {} /\ Answer(p, "unauthorized")
       \/ \E u \in LiveWith(op[p].email) :
             op' = [op EXCEPT ![p].step = "load", ![p].target = u]
    /\ UNCHANGED <<account, preference, tokens, listed, requests, faults>>

(* Mutant of LoadWithPassword: the password is not validated. *)
LoadAnyPassword(p) ==
    /\ At(p, "load")
    /\ IF Live(op[p].target)
       THEN op' = [op EXCEPT ![p].step = "issue", ![p].seen = account[op[p].target].email]
       ELSE Answer(p, "unauthorized")
    /\ UNCHANGED <<account, preference, tokens, listed, requests, faults>>

(* What protectPassword keeps of a password, salt and hash, tells exactly the
   password it was made of.                                                *)
validatePassword(u, password) == account[u].password = password

(* The user is read again, by id and with the password, which is validated. *)
LoadWithPassword(p) ==
    /\ At(p, "load")
    /\ IF Live(op[p].target) /\ validatePassword(op[p].target, op[p].password)
       THEN op' = [op EXCEPT ![p].step = "issue", ![p].seen = account[op[p].target].email]
       ELSE Answer(p, "unauthorized")
    /\ UNCHANGED <<account, preference, tokens, listed, requests, faults>>

(* The preference is read, and done without when that fails. *)
IssueToken(p) ==
    /\ At(p, "issue")
    /\ tokens' = tokens \cup {[id |-> op[p].target, email |-> op[p].seen]}
    /\ Answer(p, "ok")
    /\ UNCHANGED <<account, preference, listed, requests, faults>>

(***************************************************************************)
(* The end of a request, by its answer or by a query that throws.          *)
(***************************************************************************)
Return(p) ==
    /\ At(p, "return")
    /\ op' = [op EXCEPT ![p] = Idle]
    /\ UNCHANGED <<account, preference, tokens, listed, requests, faults>>

Throw(p) ==
    /\ op[p].step \notin {"idle", "issue", "return"}
    /\ faults < MaxFaults
    /\ faults' = faults + 1
    /\ Answer(p, IF op[p].kind = "login" THEN "unauthorized" ELSE "internal")
    /\ UNCHANGED <<account, preference, tokens, listed, requests>>

(***************************************************************************)
(* list(): one query that finds live rows, also when asked for deleted     *)
(* ones.  It is cut to a page only when limit and page are both truthy,    *)
(* which page 0 is not; without sortBy any rows may make the page.         *)
(***************************************************************************)
Paginated(query) == {query.limit, query.page} \cap {None, 0} = {}

Rest(query, total) == IF query.limit * query.page >= total THEN 0 ELSE total - query.limit * query.page
PageSize(query, total) ==
    IF ~Paginated(query) THEN total
    ELSE IF Rest(query, total) < query.limit THEN Rest(query, total) ELSE query.limit

(* Math.ceil(total / (limit ?? 1)) || 1, for a limit that is not 0. *)
TotalPages(query, total) ==
    IF total = 0 THEN 1
    ELSE IF query.limit = None THEN total ELSE (total + query.limit - 1) \div query.limit

Found(query) == {u \in User : Live(u) /\ (query.selectSoftDeleted => Deleted(u))}

ListUsers(query) ==
    /\ tokens # {}
    /\ query.limit # 0
    /\ LET total == Cardinality(Found(query))
       IN  \E content \in SUBSET Found(query) :
              /\ Cardinality(content) = PageSize(query, total)
              /\ listed' = [query |-> query, content |-> content, totalItems |-> total,
                            totalPages |-> TotalPages(query, total)]
    /\ UNCHANGED <<account, preference, tokens, op, requests, faults>>

Start(p) ==
    \/ \E e \in Email, w \in Password : Login(p, e, w)
    \/ /\ tokens # {}
       /\ \/ \E e \in Email, w \in Password : Create(p, e, w)
          \/ \E u \in User : Get(p, u)
    \/ \E agent \in tokens, u \in User :
          \/ Delete(p, agent, u)
          \/ \E change \in Change : Update(p, agent, u, change)

Advance(p) ==
    \/ CheckEmail(p) \/ RecheckEmail(p) \/ Insert(p) \/ InsertPreference(p) \/ Reread(p)
    \/ LoadUser(p) \/ LoadPreference(p) \/ WriteUser(p) \/ CheckUser(p)
    \/ WritePreference(p) \/ CheckPreference(p)
    \/ DeletePreference(p) \/ MarkUser(p) \/ DeleteUser(p)
    \/ FindUser(p) \/ LoadWithPassword(p) \/ IssueToken(p) \/ Return(p)

(* The bound is reached and everything answered: not a deadlock. *)
Quiet ==
    /\ requests = MaxRequests
    /\ \A p \in Proc : op[p] = Idle
    /\ UNCHANGED vars

Next ==
    \/ \E p \in Proc : Start(p) \/ Advance(p) \/ Throw(p)
    \/ \E query \in Query : ListUsers(query)
    \/ Quiet

Spec == Init /\ [][Next]_vars

(***************************************************************************)
(* Properties.                                                             *)
(***************************************************************************)

(* User and preference live and die together: when no request is creating or
   deleting u, exactly a live user has a live preference and exactly a deleted
   one bears deletedBy, as long as no query failed between the writes.     *)
Busy(u) == \E p \in Proc : op[p].target = u /\ op[p].kind \in {"create", "delete"}
                           /\ op[p].step # "return"

PreferenceFollowsUser ==
    faults = 0 => \A u \in User :
        Exists(u) /\ ~Busy(u) =>
            /\ Live(u) <=> preference[u] = "live"
            /\ Deleted(u) <=> account[u].marked

(* The order of the deletions: whatever fails in between, a deleted user has
   no live preference left, so its user_preferences row is never an orphan.*)
DeletedInOrder ==
    \A u \in User :
        /\ Deleted(u) => account[u].marked
        /\ Exists(u) /\ account[u].marked => preference[u] = "deleted"
        /\ ~Exists(u) => preference[u] = "none"

(* What a request has found out and written when it is at a step. *)
Writing == {"writeUser", "checkUser", "writePreference", "checkPreference"}
Deleting == {"deletePreference", "markUser", "deleteUser"}

Fits(r) ==
    /\ r.step \in {"check", "recheck", "insert"} =>
          r.kind = "create" /\ r.email # None /\ r.password # None
    /\ r.step \in {"insertPreference", "loadPreference", "issue"} \cup Writing \cup Deleting =>
          Exists(r.target)
    /\ r.step = "insertPreference" => r.kind = "create" /\ preference[r.target] = "none"
    /\ r.step \in Writing \cup Deleting => preference[r.target] # "none"
    /\ r.step \in Deleting => r.kind = "delete"
    /\ r.step \in {"markUser", "deleteUser"} => preference[r.target] = "deleted"
    /\ r.step = "deleteUser" => account[r.target].marked
    /\ r.step = "issue" => r.seen # None

StepsFit == \A p \in Proc : Fits(op[p])

(* No two creates insert the preference of one user, and what is done by half
   is being done while nothing failed.                                     *)
OneCreator ==
    \A p, q \in Proc :
        op[p].step = "insertPreference" /\ op[q].step = "insertPreference" /\ op[p].target = op[q].target
            => p = q

SomeoneAt(step, u) == \E p \in Proc : op[p].step = step /\ op[p].target = u
Continued(u) ==
    /\ preference[u] = "none" => SomeoneAt("insertPreference", u)
    /\ preference[u] = "deleted" /\ ~account[u].marked => SomeoneAt("markUser", u)
    /\ account[u].marked /\ ~account[u].deleted => SomeoneAt("deleteUser", u)

HalvesAreContinued == faults = 0 => \A u \in User : Exists(u) => Continued(u)

(* What the tables hold and what each request has found in them: no row of
   user_preferences is ever left live by a deleted user, each request has
   found out what its step needs, and what is done by half is still being
   done while nothing fails.                                               *)
TablesInv == TypeOK /\ DeletedInOrder /\ StepsFit /\ OneCreator /\ HalvesAreContinued

(* Two requests one of which writes, and that were asked about the same user
   or e-mail, have both been noted as raced.                               *)
Manages == {"update", "delete"}
Given(r) == ({r.email} \cup IF r.kind \in Manages THEN {r.target} ELSE {}) \ {None}

RacesAreNoted ==
    \A p, q \in Proc :
        /\ p # q
        /\ op[p].kind \in Writes \/ op[q].kind \in Writes
        /\ Given(op[p]) \cap Given(op[q]) # {}
        => op[p].raced

(* So has a create or a login whose e-mail is that of a user another request
   is entitled to write: a token always names a user who is there.         *)
TokensNameUsers ==
    /\ \A t \in tokens : Exists(t.id)
    /\ \A p \in Proc : op[p].agent # None => Exists(op[p].agent.id)

Entitled(r) == r.kind \in Manages /\ r.agent # None /\ r.agent.id = r.target

HoldersAreNoted ==
    \A p, q \in Proc :
        /\ op[p].kind \in {"create", "login"}
        /\ Entitled(op[q])
        /\ account[op[q].target].email = op[p].email
        => op[p].raced

(* What a request relies on at its step, the last five parts of them unless it
   raced: those that manage a user on the permission they checked and, the
   updates, on what they wrote; those that go by an e-mail on who has it.  *)
KindFits(r) ==
    /\ r.step \in {"loadUser", "loadPreference"} \cup Deleting => r.kind \in Manages
    /\ r.step \in Writing => r.kind = "update"
    /\ r.step \in {"find", "load", "issue"} => r.kind = "login"
    /\ r.step # "return" => r.answer = "none"
    /\ r.step \in {"loadUser", "loadPreference", "writeUser"} \cup Deleting => r.agent # None
    /\ r.step \in {"writeUser"} \cup Deleting => r.agent.id = r.target

OwnerKnows(r) ==
    /\ r.step = "loadPreference" => r.seen = account[r.target].email
    /\ r.step \in {"writeUser"} \cup Deleting => r.agent.email = account[r.target].email

UpdaterKnows(r) ==
    r.kind = "update" =>
        /\ r.step \in (Writing \ {"writeUser"}) \cup {"reread"} \/ r.answer = "ok" =>
              Exists(r.target) /\ account[r.target] = Updated(account[r.target], r)
        /\ r.answer = "ok" => Live(r.target)

FinderKnows(r) ==
    /\ r.step \in {"recheck", "insert"} => LiveWith(r.email) = {}
    /\ r.step \in {"insertPreference", "load", "issue"} \/ (r.step = "reread" /\ r.kind = "create") =>
          Live(r.target) /\ account[r.target].email = r.email

CreatorKnows(r) ==
    r.kind = "create" =>
        /\ r.step = "reread" => preference[r.target] = "live"
        /\ r.answer = "internal" /\ faults = 0 =>
              \E u \in User : Deleted(u) /\ account[u].email = r.email

LoginKnows(r) ==
    r.step = "issue" =>
        /\ r.seen = account[r.target].email
        /\ account[r.target].password = r.password

Knows(r) ==
    /\ KindFits(r)
    /\ r.raced \/ /\ OwnerKnows(r) /\ UpdaterKnows(r)
                  /\ FinderKnows(r) /\ CreatorKnows(r) /\ LoginKnows(r)

RacesInv ==
    /\ RacesAreNoted /\ TokensNameUsers /\ HoldersAreNoted
    /\ \A p \in Proc : Knows(op[p])

(* The unique index, which soft-deleted rows do not leave. *)
EmailsAreUnique ==
    \A u, v \in User : Exists(u) /\ Exists(v) /\ account[u].email = account[v].email => u = v

(* The invariant the theorems rest on. *)
UsersInv == TablesInv /\ EmailsAreUnique /\ RacesInv

(* Deleting is for good: no update that overlaps brings a user or a preference
   back, and nobody else ever gets the row.                                *)
DeletedForGood ==
    [][\A u \in User :
          /\ Deleted(u) => Deleted(u)'
          /\ preference[u] = "deleted" => preference'[u] = "deleted"]_vars

(* Two tables written query by query look like one directory that is written
   atomically: nobody is shown by half, whichever query fails or overlaps, no
   two have one e-mail, and an update brings no deleted user or preference
   back, neither to the directory nor to the login.                        *)
Shown == {u \in User : Live(u) /\ preference[u] = "live"}
AccountOf(u) == [id |-> u, email |-> account[u].email, password |-> account[u].password]

Directory == INSTANCE Accounts WITH
    accounts <- {AccountOf(u) : u \in Shown},
    closed <- {u \in User : preference[u] = "deleted"},
    barred <- {u \in User : Deleted(u)}

DirectorySpec == Directory!Spec

(* Only its owner touches a user: a row changes only by a request whose token
   names it by id and by its present e-mail (a token from before a change of
   e-mail no longer counts), unless another writing request overlapped.    *)
OwnersOnly ==
    [][\A u \in User :
          Exists(u) /\ account'[u] # account[u] =>
              \E p \in Proc :
                  /\ op[p] # op'[p]
                  /\ op[p].target = u
                  /\ op[p].agent.id = u
                  /\ op[p].raced \/ op[p].agent.email = account[u].email]_vars

(* A token is issued to the live user who has the e-mail it bears and, just
   now, the password that was given, unless a writing request overlapped.  *)
TokensAreGenuine ==
    [][\A t \in tokens' \ tokens :
          \E p \in Proc :
              /\ op[p].kind = "login" /\ op[p].target = t.id
              /\ op[p].raced \/ /\ Live(t.id)
                                /\ account[t.id].email = t.email
                                /\ account[t.id].password = op[p].password]_vars

(* A create for an e-mail in use answers "conflict": it ends in an internal
   error only when a query failed, another request wrote the same e-mail
   meanwhile, or a deleted user still holds it.                            *)
DuplicateIsConflict ==
    \A p \in Proc :
        op[p].kind = "create" /\ op[p].answer = "internal" /\ ~op[p].raced /\ faults = 0 =>
            \E u \in User : Deleted(u) /\ account[u].email = op[p].email

(* An update that answers "ok" has left what it was asked for, unless another
   request wrote the same user or e-mail.                                  *)
UpdateTakesEffect ==
    \A p \in Proc :
        op[p].kind = "update" /\ op[p].answer = "ok" /\ ~op[p].raced =>
            /\ Live(op[p].target)
            /\ account[op[p].target] = Updated(account[op[p].target], op[p])

(* list() with selectSoftDeleted returns the deleted users, as the parameter
   is documented: "Filter just soft-deleted registers".                    *)
SoftDeletedAreListed ==
    [][listed' # listed /\ listed'.query.selectSoftDeleted /\ ~Paginated(listed'.query) =>
          listed'.content = {u \in User : Deleted(u)}]_vars
=============================================================================
