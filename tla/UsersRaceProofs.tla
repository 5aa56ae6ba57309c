-------------------------- MODULE UsersRaceProofs --------------------------
(***************************************************************************)
(* Proofs about Users, continued: the second half of its invariant, what   *)
(* requests that did not race with one another may rely on, and from it    *)
(* that only owners touch a user, that tokens are genuine, that updates    *)
(* take effect and that a duplicate is a conflict; and that the tables     *)
(* implement the directory of Accounts.                                    *)
(***************************************************************************)
EXTENDS UsersProofs

(* What every step of p but its first and its last does to the requests: what
   p was asked for and whether it raced stay, it may drop its token, and only
   creates and logins find out about whom they are.                        *)
Continues(p) ==
    /\ op' \in [Proc -> Request]
    /\ \A q \in Proc : q # p => op'[q] = op[q]
    /\ op'[p].kind = op[p].kind /\ op'[p].email = op[p].email
    /\ op'[p].password = op[p].password /\ op'[p].raced = op[p].raced
    /\ op'[p].agent \in {op[p].agent, None}
    /\ op[p].kind \in Manages => op'[p].target = op[p].target
LEMMA ReplacedContinues ==
    ASSUME TypeOK, NEW p \in Proc, NEW r \in Request, op' = [op EXCEPT ![p] = r],
           r.kind = op[p].kind, r.email = op[p].email, r.password = op[p].password,
           r.raced = op[p].raced, r.agent \in {op[p].agent, None},
           op[p].kind \in Manages => r.target = op[p].target
    PROVE  Continues(p) /\ op'[p] = r
  BY DEF TypeOK, Continues

LEMMA GotoContinues ==
    ASSUME TypeOK, NEW p \in Proc, NEW step \in Steps, Goto(p, step)
    PROVE  /\ Continues(p) /\ op'[p].step = step
           /\ op'[p].target = op[p].target /\ op'[p].agent = op[p].agent
           /\ op'[p].seen = op[p].seen /\ op'[p].answer = op[p].answer
<1> DEFINE r == [op[p] EXCEPT !.step = step]
<1>1. op[p] \in Request /\ op' = [op EXCEPT ![p] = r]
  BY DEF TypeOK, Goto
<1>2. /\ r \in Request /\ r.kind = op[p].kind /\ r.email = op[p].email
      /\ r.password = op[p].password /\ r.raced = op[p].raced /\ r.agent = op[p].agent
      /\ r.target = op[p].target /\ r.seen = op[p].seen /\ r.answer = op[p].answer
      /\ r.step = step
  BY <1>1 DEF Request
<1> HIDE DEF r
<1> QED BY <1>1, <1>2, ReplacedContinues

LEMMA AnswerContinues ==
    ASSUME TypeOK, NEW p \in Proc, NEW answer \in Answers, Answer(p, answer)
    PROVE  /\ Continues(p) /\ op'[p].step = "return" /\ op'[p].answer = answer
           /\ op'[p].target = op[p].target
<1> DEFINE r == [op[p] EXCEPT !.step = "return", !.answer = answer, !.agent = None, !.seen = None]
<1>1. op[p] \in Request /\ op' = [op EXCEPT ![p] = r]
  BY DEF TypeOK, Answer
<1>2. /\ r \in Request /\ r.kind = op[p].kind /\ r.email = op[p].email
      /\ r.password = op[p].password /\ r.raced = op[p].raced /\ r.agent = None
      /\ r.target = op[p].target /\ r.answer = answer /\ r.step = "return"
  BY <1>1 DEF Request, Steps
<1> HIDE DEF r
<1> QED BY <1>1, <1>2, ReplacedContinues

(***************************************************************************)
(* Who raced stays noted.                                                  *)
(***************************************************************************)
LEMMA NotesAreKept ==
    ASSUME RacesAreNoted, NEW p \in Proc, Continues(p)
    PROVE  RacesAreNoted'
<1>1. ASSUME NEW q \in Proc
      PROVE  /\ op'[q].kind = op[q].kind /\ op'[q].raced = op[q].raced
             /\ Given(op[q])' = Given(op[q])
  <2>1. q # p => op'[q] = op[q]
    BY DEF Continues
  <2>2. q = p => /\ op'[q].kind = op[q].kind /\ op'[q].raced = op[q].raced
                 /\ op'[q].email = op[q].email
                 /\ op[q].kind \in Manages => op'[q].target = op[q].target
    BY DEF Continues
  <2> QED BY <2>1, <2>2 DEF Given
<1> QED BY <1>1 DEF RacesAreNoted

(* A step keeps the second part where the users who are there keep their
   e-mail, or get the one p was asked to give them.                        *)
LEMMA HoldersAreKept ==
    ASSUME TypeOK, RacesAreNoted, TokensNameUsers, HoldersAreNoted, NEW p \in Proc, Continues(p),
           \A u \in User : Exists(u) => \/ account'[u].email = account[u].email
                              \/ /\ op[p].kind = "update" /\ op[p].email # None
                                 /\ account'[u].email = op[p].email
    PROVE  HoldersAreNoted'
<1> SUFFICES ASSUME NEW q \in Proc, NEW s \in Proc,
                    op'[q].kind \in {"create", "login"}, Entitled(op'[s]),
                    account'[op'[s].target].email = op'[q].email
             PROVE  op'[q].raced
  BY DEF HoldersAreNoted, Entitled
<1>1. op'[q].kind = op[q].kind /\ op'[q].email = op[q].email /\ op'[q].raced = op[q].raced
  BY DEF Continues
<1>2. Entitled(op[s]) /\ op'[s].target = op[s].target
  BY DEF Entitled, Continues
<1>3. Exists(op[s].target) /\ op[s].target \in User
  <2>1. Exists(op[s].target)
    BY <1>2 DEF TokensNameUsers, Entitled
  <2> QED BY <2>1 DEF Exists, TypeOK, Request
<1>4. CASE account'[op[s].target].email = account[op[s].target].email
  BY <1>1, <1>2, <1>4 DEF HoldersAreNoted
<1>5. CASE /\ op[p].kind = "update" /\ op[p].email # None
           /\ account'[op[s].target].email = op[p].email
  <2>1. q # p /\ op[p].email \in Given(op[p]) \cap Given(op[q])
    BY <1>1, <1>2, <1>5 DEF Given
  <2> QED BY <1>1, <1>5, <2>1 DEF RacesAreNoted, Writes
<1> QED BY <1>3, <1>4, <1>5

(* The rows a token names stay. *)
LEMMA NamesAreKept ==
    ASSUME TypeOK, TokensNameUsers, NEW p \in Proc, Continues(p),
           \A u \in User : Exists(u) => account'[u] # None,
           \A t \in tokens' \ tokens : t.id \in User /\ Exists(t.id)
    PROVE  TokensNameUsers'
<1>1. \A u \in User : Exists(u) => Exists(u)'
  BY DEF Exists
<1>2. \A q \in Proc : op'[q].agent # None => op[q].agent # None /\ op'[q].agent = op[q].agent
  BY DEF Continues
<1>3. \A t \in tokens' : Exists(t.id)'
  BY <1>1 DEF TokensNameUsers, TypeOK, Token
<1>4. \A q \in Proc : op[q].agent # None => op[q].agent.id \in User
  BY DEF TypeOK, Request, Token
<1>5. \A q \in Proc : (op[q].agent # None => Exists(op[q].agent.id))'
  BY <1>1, <1>2, <1>4 DEF TokensNameUsers
<1> QED BY <1>3, <1>5 DEF TokensNameUsers

(***************************************************************************)
(* What a request knows stays true as long as the rows it knows about are  *)
(* spared: that of the user it manages, those that hold its e-mail.        *)
(***************************************************************************)
Spared(r) ==
    /\ r.kind \in Manages /\ Exists(r.target) => account'[r.target] = account[r.target]
    /\ r.kind \in {"create", "login"} =>
          \A u \in User :
             \/ Exists(u) /\ account[u].email = r.email
             \/ Exists(u)' /\ account'[u].email = r.email
             => account'[u] = account[u] /\ preference'[u] \in {preference[u], "live"}

LEMMA SparedKnow ==
    ASSUME NEW r \in Request, Fits(r), Knows(r), ~r.raced => Spared(r), faults' = 0 => faults = 0
    PROVE  Knows(r)'
<1>1. KindFits(r)'
  BY DEF Knows, KindFits
<1>2. SUFFICES ASSUME ~r.raced
               PROVE  /\ OwnerKnows(r)' /\ UpdaterKnows(r)'
                      /\ FinderKnows(r)' /\ CreatorKnows(r)' /\ LoginKnows(r)'
  BY <1>1 DEF Knows
<1>3. /\ KindFits(r) /\ OwnerKnows(r) /\ UpdaterKnows(r)
      /\ FinderKnows(r) /\ CreatorKnows(r) /\ LoginKnows(r) /\ Spared(r)
  BY <1>2 DEF Knows
<1>4. r.target = None \/ r.target \in User
  BY DEF Request
<1>5. OwnerKnows(r)'
  BY <1>3 DEF OwnerKnows, KindFits, Spared, Fits, Writing, Deleting, Manages
<1>6. UpdaterKnows(r)'
  BY <1>3 DEF UpdaterKnows, Updated, Spared, Exists, Live, Manages
<1>7. FinderKnows(r)'
  <2>1. r.step \in {"recheck", "insert"} => LiveWith(r.email)' = {}
    <3> SUFFICES ASSUME r.step \in {"recheck", "insert"}, NEW u \in LiveWith(r.email)'
                 PROVE  FALSE
      OBVIOUS
    <3>1. u \in User /\ Exists(u)' /\ account'[u].email = r.email /\ ~account'[u].deleted
      BY DEF LiveWith, Live
    <3>2. account'[u] = account[u]
      BY <1>3, <3>1 DEF Spared, Fits
    <3>3. u \in LiveWith(r.email)
      BY <3>1, <3>2 DEF LiveWith, Live, Exists
    <3> QED BY <1>3, <3>3 DEF FinderKnows
  <2>2. ASSUME r.step \in {"insertPreference", "load", "issue"}
               \/ (r.step = "reread" /\ r.kind = "create")
        PROVE  Live(r.target)' /\ account'[r.target].email = r.email
    <3>1. Live(r.target) /\ account[r.target].email = r.email /\ r.kind \in {"create", "login"}
      BY <1>3, <2>2 DEF FinderKnows, KindFits, Fits
    <3>2. account'[r.target] = account[r.target]
      BY <1>3, <1>4, <3>1 DEF Spared, Live, Exists
    <3> QED BY <3>1, <3>2 DEF Live, Exists
  <2> QED BY <2>1, <2>2 DEF FinderKnows
<1>8. CreatorKnows(r)'
  <2> SUFFICES ASSUME r.kind = "create"
               PROVE  /\ r.step = "reread" => preference'[r.target] = "live"
                      /\ r.answer = "internal" /\ faults' = 0 =>
                            \E u \in User : Deleted(u)' /\ account'[u].email = r.email
    BY DEF CreatorKnows
  <2>1. r.step = "reread" => preference'[r.target] = "live"
    BY <1>3, <1>4 DEF CreatorKnows, FinderKnows, Spared, Live, Exists
  <2>2. ASSUME r.answer = "internal", faults' = 0
        PROVE  \E u \in User : Deleted(u)' /\ account'[u].email = r.email
    <3>1. PICK u \in User : Deleted(u) /\ account[u].email = r.email
      BY <1>3, <2>2 DEF CreatorKnows
    <3>2. account'[u] = account[u]
      BY <1>3, <3>1 DEF Spared, Deleted
    <3> QED BY <3>1, <3>2 DEF Deleted, Exists
  <2> QED BY <2>1, <2>2
<1>9. LoginKnows(r)'
  <2> SUFFICES ASSUME r.step = "issue"
               PROVE  r.seen = account'[r.target].email /\ account'[r.target].password = r.password
    BY DEF LoginKnows
  <2>1. Live(r.target) /\ account[r.target].email = r.email /\ r.kind = "login"
    BY <1>3 DEF FinderKnows, KindFits
  <2>2. account'[r.target] = account[r.target]
    BY <1>3, <1>4, <2>1 DEF Spared, Live, Exists
  <2> QED BY <1>3, <2>2 DEF LoginKnows
<1> QED BY <1>5, <1>6, <1>7, <1>8, <1>9

(***************************************************************************)
(* A step of p keeps all of it where p knows what it needs next, and the   *)
(* others who did not race are spared.                                     *)
(***************************************************************************)
LEMMA ContinuingKeepsRaces ==
    ASSUME TablesInv, RacesInv, NEW p \in Proc, Continues(p), Knows(op[p])',
           \A q \in Proc : q # p /\ ~op[q].raced => Spared(op[q]),
           \A u \in User : Exists(u) => \/ account'[u].email = account[u].email
                              \/ /\ op[p].kind = "update" /\ op[p].email # None
                                 /\ account'[u].email = op[p].email,
           \A u \in User : Exists(u) => account'[u] # None,
           \A t \in tokens' \ tokens : t.id \in User /\ Exists(t.id),
           faults' = 0 => faults = 0
    PROVE  RacesInv'
<1>1. RacesAreNoted' /\ HoldersAreNoted' /\ TokensNameUsers'
  BY NotesAreKept, HoldersAreKept, NamesAreKept DEF RacesInv, TablesInv, TypeOK
<1>2. ASSUME NEW q \in Proc, q # p
      PROVE  Knows(op[q])'
  <2>1. op'[q] = op[q] /\ op[q] \in Request /\ Fits(op[q]) /\ Knows(op[q])
    BY <1>2 DEF Continues, TablesInv, TypeOK, StepsFit, RacesInv
  <2>2. \A request \in Request : request = op[q] => Knows(request)'
    BY <1>2, <2>1, SparedKnow
  <2> QED BY <2>1, <2>2 DEF Knows
<1> QED BY <1>1, <1>2 DEF RacesInv

(***************************************************************************)
(* Steps that leave the tables alone.                                      *)
(***************************************************************************)
LEMMA QuietKeepsRaces ==
    ASSUME TablesInv, RacesInv, NEW p \in Proc, Continues(p), Knows(op[p])',
           account' = account, preference' = preference,
           \A t \in tokens' \ tokens : t.id \in User /\ Exists(t.id),
           faults' = 0 => faults = 0
    PROVE  RacesInv'
<1>1. \A q \in Proc : Spared(op[q])
  BY DEF Spared, Exists
<1>2. \A u \in User : Exists(u) => account'[u] = account[u] /\ account'[u] # None
  BY DEF Exists
<1> QED BY <1>1, <1>2, ContinuingKeepsRaces

(* An answer has to be known only where it says ok to an update, or internal
   to a create while nothing failed.                                       *)
LEMMA AnswerKnows ==
    ASSUME TypeOK, NEW p \in Proc, NEW answer \in Answers, Answer(p, answer),
           account' = account, faults' = 0 => faults = 0,
           op[p].raced \/
              /\ op[p].kind = "update" /\ answer = "ok" =>
                    /\ Live(op[p].target)
                    /\ account[op[p].target] = Updated(account[op[p].target], op[p])
              /\ op[p].kind = "create" /\ answer = "internal" /\ faults' = 0 =>
                    \E u \in User : Deleted(u) /\ account[u].email = op[p].email
    PROVE  Continues(p) /\ Knows(op[p])'
<1>1. /\ Continues(p) /\ op'[p].step = "return" /\ op'[p].answer = answer
      /\ op'[p].target = op[p].target
  BY AnswerContinues
<1>2. /\ op'[p].kind = op[p].kind /\ op'[p].email = op[p].email
      /\ op'[p].password = op[p].password /\ op'[p].raced = op[p].raced
  BY <1>1 DEF Continues
<1>3. KindFits(op[p])' /\ OwnerKnows(op[p])' /\ FinderKnows(op[p])' /\ LoginKnows(op[p])'
  BY <1>1 DEF KindFits, OwnerKnows, FinderKnows, LoginKnows, Writing, Deleting
<1>4. op[p].raced \/ UpdaterKnows(op[p])'
  BY <1>1, <1>2 DEF UpdaterKnows, Updated, Live, Exists, Writing
<1>5. op[p].raced \/ CreatorKnows(op[p])'
  BY <1>1, <1>2 DEF CreatorKnows, Deleted, Exists
<1> QED BY <1>1, <1>2, <1>3, <1>4, <1>5 DEF Knows

LEMMA AnsweringKeepsRaces ==
    ASSUME TablesInv, RacesInv, NEW p \in Proc, NEW answer \in Answers, Answer(p, answer),
           TablesStay, faults' = 0 => faults = 0,
           op[p].raced \/
              /\ op[p].kind = "update" /\ answer = "ok" =>
                    /\ Live(op[p].target)
                    /\ account[op[p].target] = Updated(account[op[p].target], op[p])
              /\ op[p].kind = "create" /\ answer = "internal" /\ faults' = 0 =>
                    \E u \in User : Deleted(u) /\ account[u].email = op[p].email
    PROVE  RacesInv'
<1>1. account' = account /\ preference' = preference /\ tokens' = tokens /\ TypeOK
  BY DEF TablesStay, TablesInv
<1>2. Continues(p) /\ Knows(op[p])'
  BY <1>1, AnswerKnows
<1> QED BY <1>1, <1>2, QuietKeepsRaces

(* What would be known about the request at another step is known there: *)
(* going on changes the step alone.                                      *)
KnowsAt(p, step) ==
    \A r \in Request :
        (/\ r.step = step /\ r.kind = op[p].kind /\ r.email = op[p].email
         /\ r.password = op[p].password /\ r.raced = op[p].raced /\ r.agent = op[p].agent
         /\ r.target = op[p].target /\ r.seen = op[p].seen /\ r.answer = op[p].answer)
        => Knows(r)

LEMMA GoingKeepsRaces ==
    ASSUME TablesInv, RacesInv, NEW p \in Proc, NEW step \in Steps, Goto(p, step),
           TablesStay, faults' = faults, KnowsAt(p, step)
    PROVE  RacesInv'
<1>1. /\ Continues(p) /\ op'[p].step = step
      /\ op'[p].target = op[p].target /\ op'[p].agent = op[p].agent
      /\ op'[p].seen = op[p].seen /\ op'[p].answer = op[p].answer
  BY GotoContinues DEF TablesInv
<1>2. Knows(op'[p])
  BY <1>1 DEF Continues, KnowsAt
<1>3. account' = account /\ preference' = preference /\ tokens' = tokens
  BY DEF TablesStay
<1>4. KindFits(op[p])' /\ faults' = faults
  BY <1>2 DEF Knows, KindFits
<1>5. op'[p].raced \/ (OwnerKnows(op[p])' /\ LoginKnows(op[p])')
  BY <1>2, <1>3 DEF Knows, OwnerKnows, LoginKnows
<1>6. op'[p].raced \/ UpdaterKnows(op[p])'
  BY <1>2, <1>3 DEF Knows, UpdaterKnows, Updated, Live, Exists
<1>7. op'[p].raced \/ FinderKnows(op[p])'
  BY <1>2, <1>3 DEF Knows, FinderKnows, LiveWith, Live, Exists
<1>8. op'[p].raced \/ CreatorKnows(op[p])'
  BY <1>2, <1>3, <1>4 DEF Knows, CreatorKnows, Deleted, Exists
<1>9. Knows(op[p])'
  BY <1>4, <1>5, <1>6, <1>7, <1>8 DEF Knows
<1> QED BY <1>1, <1>3, <1>4, <1>9, QuietKeepsRaces

(* An update goes on where it may write, or has written what it was asked. *)
Wrote(r) == Exists(r.target) /\ account[r.target] = Updated(account[r.target], r)

LEMMA UpdateGoesOn ==
    ASSUME TablesInv, RacesInv, NEW p \in Proc, op[p].kind = "update", op[p].answer = "none",
           NEW step \in {"writeUser", "writePreference", "checkPreference", "reread"}, Goto(p, step),
           TablesStay, faults' = faults,
           step = "writeUser" =>
              /\ op[p].agent # None /\ op[p].agent.id = op[p].target
              /\ op[p].raced \/ op[p].agent.email = account[op[p].target].email,
           step # "writeUser" =>
              op[p].raced \/ Wrote(op[p])
    PROVE  RacesInv'
<1>1. /\ Continues(p) /\ op'[p].step = step
      /\ op'[p].target = op[p].target /\ op'[p].agent = op[p].agent
      /\ op'[p].seen = op[p].seen /\ op'[p].answer = op[p].answer
  BY GotoContinues DEF TablesInv, Steps
<1>2. /\ op'[p].kind = "update" /\ op'[p].email = op[p].email
      /\ op'[p].password = op[p].password /\ op'[p].raced = op[p].raced
  BY <1>1 DEF Continues
<1>3. account' = account /\ preference' = preference /\ tokens' = tokens
  BY DEF TablesStay
<1>4. KindFits(op[p])'
  BY <1>1, <1>2 DEF KindFits, Writing, Deleting, Manages
<1>5. op[p].raced \/ OwnerKnows(op[p])'
  BY <1>1, <1>2, <1>3 DEF OwnerKnows, Writing, Deleting
<1>6. op[p].raced \/ UpdaterKnows(op[p])'
  <2>1. Updated(account[op[p].target], op[p])' = Updated(account[op[p].target], op[p])
    BY <1>1, <1>2, <1>3 DEF Updated
  <2> QED BY <1>1, <1>2, <1>3, <2>1 DEF UpdaterKnows, Exists, Writing, Wrote
<1>7. FinderKnows(op[p])' /\ CreatorKnows(op[p])' /\ LoginKnows(op[p])'
  BY <1>1, <1>2 DEF FinderKnows, CreatorKnows, LoginKnows
<1> QED BY <1>1, <1>2, <1>3, <1>4, <1>5, <1>6, <1>7, QuietKeepsRaces DEF Knows

LEMMA ReadingKeepsRaces ==
    ASSUME TablesInv, RacesInv, NEW p \in Proc,
           \/ CheckEmail(p) \/ RecheckEmail(p) \/ Reread(p) \/ LoadPreference(p)
           \/ CheckUser(p) \/ WritePreference(p) \/ CheckPreference(p) \/ Throw(p)
    PROVE  RacesInv'
<1>1. /\ Fits(op[p]) /\ Knows(op[p]) /\ op[p] \in Request /\ faults \in 0..MaxFaults
  BY DEF TablesInv, StepsFit, TypeOK, RacesInv
<1> USE <1>1 DEF TablesStay, At, Steps, Answers, Fits, Writing, Deleting, Knows, KindFits
<1>2. CASE CheckEmail(p)
  <2>1. CASE LiveWith(op[p].email) # {}
    BY <1>2, <2>1, AnsweringKeepsRaces DEF CheckEmail
  <2>2. CASE LiveWith(op[p].email) = {}
    <3>1. Goto(p, "recheck") /\ faults' = faults
      BY <1>2, <2>2 DEF CheckEmail
    <3>2. KnowsAt(p, "recheck")
      BY <1>2, <2>2 DEF CheckEmail, KnowsAt, OwnerKnows, UpdaterKnows, FinderKnows, CreatorKnows, LoginKnows
    <3> QED BY <1>2, <3>1, <3>2, GoingKeepsRaces DEF CheckEmail
  <2> QED BY <2>1, <2>2
<1>3. CASE RecheckEmail(p)
  <2>1. CASE LiveWith(op[p].email) # {}
    BY <1>3, <2>1, AnsweringKeepsRaces DEF RecheckEmail, FinderKnows
  <2>2. CASE LiveWith(op[p].email) = {}
    <3>1. Goto(p, "insert") /\ faults' = faults
      BY <1>3, <2>2 DEF RecheckEmail
    <3>2. KnowsAt(p, "insert")
      BY <1>3, <2>2 DEF RecheckEmail, KnowsAt, OwnerKnows, UpdaterKnows, FinderKnows, CreatorKnows, LoginKnows
    <3> QED BY <1>3, <3>1, <3>2, GoingKeepsRaces DEF RecheckEmail
  <2> QED BY <2>1, <2>2
<1>4. CASE Reread(p)
  BY <1>4, AnsweringKeepsRaces DEF Reread, UpdaterKnows, FinderKnows, CreatorKnows
<1>5. CASE LoadPreference(p)
  <2>1. op[p].kind \in Manages /\ op[p].step = "loadPreference" /\ Exists(op[p].target)
    BY <1>5 DEF LoadPreference
  <2>2. CASE preference[op[p].target] # "live"
    BY <1>5, <2>1, <2>2, AnsweringKeepsRaces DEF LoadPreference, Manages
  <2>3. CASE preference[op[p].target] = "live" /\ ~IsAllowedToManageUser(op[p])
    BY <1>5, <2>1, <2>3, AnsweringKeepsRaces DEF LoadPreference, Manages
  <2>4. CASE preference[op[p].target] = "live" /\ IsAllowedToManageUser(op[p])
    <3>1. CASE op[p].kind = "delete"
      <4>1. Goto(p, "deletePreference") /\ faults' = faults
        BY <1>5, <2>4, <3>1 DEF LoadPreference
      <4>2. KnowsAt(p, "deletePreference")
        BY <2>1, <2>4, <3>1
           DEF KnowsAt, Manages, IsAllowedToManageUser, OwnerKnows, UpdaterKnows,
               FinderKnows, CreatorKnows, LoginKnows
      <4> QED BY <1>5, <4>1, <4>2, GoingKeepsRaces DEF LoadPreference
    <3>2. CASE op[p].kind = "update" /\ MustUpdate(op[p])
      BY <1>5, <2>1, <2>4, <3>2, UpdateGoesOn DEF LoadPreference, IsAllowedToManageUser, OwnerKnows
    <3>3. CASE op[p].kind = "update" /\ ~MustUpdate(op[p])
      <4>1. op[p].raced \/ account[op[p].target] = Updated(account[op[p].target], op[p])
        <5>1. account[op[p].target] \in Row
          BY <2>1 DEF Exists, TablesInv, TypeOK, Request
        <5> QED BY <2>1, <3>3, <5>1 DEF MustUpdate, OwnerKnows, Updated, Row
      <4>2. Goto(p, "reread")
        BY <1>5, <2>4, <3>3 DEF LoadPreference
      <4>3. op[p].answer = "none" /\ TablesStay /\ faults' = faults
        BY <1>5, <2>1 DEF LoadPreference
      <4> QED BY <2>1, <3>3, <4>1, <4>2, <4>3, UpdateGoesOn DEF Wrote
    <3> QED BY <2>1, <3>1, <3>2, <3>3 DEF Manages
  <2> QED BY <2>2, <2>3, <2>4
<1>6. CASE CheckUser(p)
  <2>1. CASE ~Live(op[p].target)
    BY <1>6, <2>1, AnsweringKeepsRaces DEF CheckUser
  <2>2. CASE Live(op[p].target)
    <3>1. /\ op[p].kind = "update" /\ op[p].answer = "none" /\ TablesStay /\ faults' = faults
          /\ Goto(p, "writePreference") \/ Goto(p, "reread")
      BY <1>6, <2>2 DEF CheckUser
    <3>2. op[p].raced \/ Wrote(op[p])
      BY <1>6, <3>1 DEF CheckUser, UpdaterKnows, Wrote
    <3> QED BY <3>1, <3>2, UpdateGoesOn
  <2> QED BY <2>1, <2>2
<1>7. CASE WritePreference(p)
  <2>1. /\ op[p].kind = "update" /\ op[p].answer = "none" /\ TablesStay /\ faults' = faults
        /\ Goto(p, "checkPreference")
    BY <1>7 DEF WritePreference
  <2>2. op[p].raced \/ Wrote(op[p])
    BY <1>7, <2>1 DEF WritePreference, UpdaterKnows, Wrote
  <2> QED BY <2>1, <2>2, UpdateGoesOn
<1>8. CASE CheckPreference(p)
  <2>1. CASE preference[op[p].target] # "live"
    BY <1>8, <2>1, AnsweringKeepsRaces DEF CheckPreference
  <2>2. CASE preference[op[p].target] = "live"
    <3>1. /\ op[p].kind = "update" /\ op[p].answer = "none" /\ TablesStay /\ faults' = faults
          /\ Goto(p, "reread")
      BY <1>8, <2>2 DEF CheckPreference
    <3>2. op[p].raced \/ Wrote(op[p])
      BY <1>8, <3>1 DEF CheckPreference, UpdaterKnows, Wrote
    <3> QED BY <3>1, <3>2, UpdateGoesOn
  <2> QED BY <2>1, <2>2
<1>9. CASE Throw(p)
  <2>1. faults' # 0
    BY <1>9, UserAssumption DEF Throw
  <2> QED BY <1>9, <2>1, AnsweringKeepsRaces DEF Throw
<1> QED BY <1>2, <1>3, <1>4, <1>5, <1>6, <1>7, <1>8, <1>9

(* Steps that find out about a user, and the one that issues a token. *)
LEMMA FindingKeepsRaces ==
    ASSUME TablesInv, RacesInv, NEW p \in Proc,
           LoadUser(p) \/ FindUser(p) \/ LoadWithPassword(p) \/ IssueToken(p)
    PROVE  RacesInv'
<1>1. /\ Fits(op[p]) /\ Knows(op[p]) /\ op[p] \in Request /\ TypeOK
      /\ op[p].target \in User \cup {None}
  BY DEF TablesInv, StepsFit, TypeOK, RacesInv, Request
<1>2. \A u \in User : account[u] # None => account[u].email \in Email
  BY <1>1 DEF TypeOK, Row
<1>3. CASE LoadUser(p)
  <2>1. CASE ~Live(op[p].target)
    <3>1. Answer(p, "internal") /\ TablesStay /\ faults' = faults /\ op[p].kind # "create"
      BY <1>1, <1>3, <2>1 DEF LoadUser, TablesStay, At, Knows, KindFits, Manages
    <3> QED BY <3>1, AnsweringKeepsRaces DEF Answers
  <2>2. CASE Live(op[p].target)
    <3> DEFINE email == account[op[p].target].email
               r == [op[p] EXCEPT !.step = "loadPreference", !.seen = email]
    <3>1. email \in Email /\ op' = [op EXCEPT ![p] = r]
      BY <1>1, <1>2, <1>3, <2>2 DEF LoadUser, TypeOK, Live, Exists
    <3>2. /\ r \in Request /\ r.kind = op[p].kind /\ r.email = op[p].email
          /\ r.password = op[p].password /\ r.raced = op[p].raced /\ r.agent = op[p].agent
          /\ r.target = op[p].target /\ r.seen = email /\ r.step = "loadPreference"
          /\ r.answer = op[p].answer
      BY <1>1, <3>1 DEF Request, Steps
    <3> HIDE DEF r
    <3>3. Continues(p) /\ op'[p] = r
      BY <1>1, <3>1, <3>2, ReplacedContinues
    <3>4. /\ account' = account /\ preference' = preference /\ tokens' = tokens
          /\ faults' = faults /\ op[p].step = "loadUser"
      BY <1>3 DEF LoadUser, At
    <3>5. KindFits(op[p])' /\ OwnerKnows(op[p])'
      BY <1>1, <3>2, <3>3, <3>4 DEF Knows, KindFits, OwnerKnows, Writing, Deleting
    <3>6. UpdaterKnows(op[p])' /\ FinderKnows(op[p])' /\ CreatorKnows(op[p])' /\ LoginKnows(op[p])'
      BY <1>1, <3>2, <3>3, <3>4
         DEF Knows, KindFits, UpdaterKnows, FinderKnows, CreatorKnows, LoginKnows, Writing
    <3> QED BY <3>3, <3>4, <3>5, <3>6, QuietKeepsRaces DEF Knows
  <2> QED BY <2>1, <2>2
<1>4. CASE FindUser(p)
  <2>0. op[p].step = "find" /\ op[p].kind = "login" /\ op[p].answer = "none"
    BY <1>1, <1>4 DEF FindUser, At, Knows, KindFits
  <2>1. CASE Answer(p, "unauthorized")
    BY <1>4, <2>0, <2>1, AnsweringKeepsRaces DEF FindUser, TablesStay, Answers
  <2>2. ASSUME NEW u \in LiveWith(op[p].email),
               op' = [op EXCEPT ![p].step = "load", ![p].target = u]
        PROVE  RacesInv'
    <3> DEFINE r == [op[p] EXCEPT !.step = "load", !.target = u]
    <3>1. u \in User /\ Live(u) /\ account[u].email = op[p].email /\ op' = [op EXCEPT ![p] = r]
      BY <1>1, <2>2 DEF LiveWith, TypeOK
    <3>2. /\ r \in Request /\ r.kind = op[p].kind /\ r.email = op[p].email
          /\ r.password = op[p].password /\ r.raced = op[p].raced /\ r.agent = op[p].agent
          /\ r.target = u /\ r.step = "load" /\ r.answer = op[p].answer
      BY <1>1, <3>1 DEF Request, Steps
    <3> HIDE DEF r
    <3>3. Continues(p) /\ op'[p] = r
      BY <1>1, <2>0, <3>1, <3>2, ReplacedContinues DEF Manages
    <3>4. account' = account /\ preference' = preference /\ tokens' = tokens /\ faults' = faults
      BY <1>4 DEF FindUser
    <3>5. FinderKnows(op[p])'
      BY <3>1, <3>2, <3>3, <3>4 DEF FinderKnows, Live, Exists
    <3>6. /\ KindFits(op[p])' /\ OwnerKnows(op[p])' /\ UpdaterKnows(op[p])'
          /\ CreatorKnows(op[p])' /\ LoginKnows(op[p])'
      BY <2>0, <3>2, <3>3
         DEF KindFits, OwnerKnows, UpdaterKnows, CreatorKnows, LoginKnows, Writing, Deleting
    <3> QED BY <3>3, <3>4, <3>5, <3>6, QuietKeepsRaces DEF Knows
  <2> QED BY <1>4, <2>1, <2>2 DEF FindUser
<1>5. CASE LoadWithPassword(p)
  <2> DEFINE found == Live(op[p].target) /\ account[op[p].target].password = op[p].password
  <2>0. op[p].step = "load" /\ op[p].kind = "login" /\ op[p].answer = "none"
    BY <1>1, <1>5 DEF LoadWithPassword, At, Knows, KindFits
  <2>1. CASE ~found
    <3>1. Answer(p, "unauthorized") /\ TablesStay /\ faults' = faults
      BY <1>5, <2>1 DEF LoadWithPassword, validatePassword, TablesStay
    <3> QED BY <2>0, <3>1, AnsweringKeepsRaces DEF Answers
  <2>2. CASE found
    <3> DEFINE email == account[op[p].target].email
               r == [op[p] EXCEPT !.step = "issue", !.seen = email]
    <3>1. email \in Email /\ op' = [op EXCEPT ![p] = r]
      BY <1>1, <1>2, <1>5, <2>2 DEF LoadWithPassword, validatePassword, TypeOK, Live, Exists
    <3>2. /\ r \in Request /\ r.kind = op[p].kind /\ r.email = op[p].email
          /\ r.password = op[p].password /\ r.raced = op[p].raced /\ r.agent = op[p].agent
          /\ r.target = op[p].target /\ r.seen = email /\ r.step = "issue"
          /\ r.answer = op[p].answer
      BY <1>1, <3>1 DEF Request, Steps
    <3> HIDE DEF r
    <3>3. Continues(p) /\ op'[p] = r
      BY <1>1, <3>1, <3>2, ReplacedContinues
    <3>4. account' = account /\ preference' = preference /\ tokens' = tokens /\ faults' = faults
      BY <1>5 DEF LoadWithPassword
    <3>5. r.raced \/ (FinderKnows(op[p])' /\ LoginKnows(op[p])')
      BY <1>1, <2>0, <2>2, <3>2, <3>3, <3>4 DEF Knows, FinderKnows, LoginKnows, Live, Exists
    <3>6. /\ KindFits(op[p])' /\ OwnerKnows(op[p])' /\ UpdaterKnows(op[p])'
          /\ CreatorKnows(op[p])'
      BY <2>0, <3>2, <3>3 DEF KindFits, OwnerKnows, UpdaterKnows, CreatorKnows, Writing, Deleting
    <3> QED BY <3>3, <3>4, <3>5, <3>6, QuietKeepsRaces DEF Knows
  <2> QED BY <2>1, <2>2
<1>6. CASE IssueToken(p)
  <2>1. /\ op[p].kind = "login" /\ Exists(op[p].target) /\ Answer(p, "ok")
        /\ account' = account /\ preference' = preference /\ faults' = faults
        /\ tokens' = tokens \cup {[id |-> op[p].target, email |-> op[p].seen]}
    BY <1>1, <1>6 DEF IssueToken, At, Knows, KindFits, Fits
  <2>3. op[p].target \in User
    BY <1>1, <2>1 DEF Exists
  <2>2. Continues(p) /\ Knows(op[p])'
    BY <1>1, <2>1, AnswerKnows DEF Answers
  <2> QED BY <2>1, <2>2, <2>3, QuietKeepsRaces
<1> QED BY <1>3, <1>4, <1>5, <1>6

(***************************************************************************)
(* Steps that write a user's rows.                                         *)
(***************************************************************************)

(* Who did not race is spared by those who write a user they own. *)
LEMMA WritersSpare ==
    ASSUME TablesInv, RacesInv, NEW p \in Proc, op[p].step \in {"writeUser"} \cup Deleting,
           NEW q \in Proc, q # p, ~op[q].raced,
           \A u \in User : u # op[p].target => account'[u] = account[u] /\ preference'[u] = preference[u],
           \/ account'[op[p].target].email = account[op[p].target].email
           \/ /\ op[p].kind = "update" /\ op[p].email # None
              /\ account'[op[p].target].email = op[p].email
    PROVE  Spared(op[q])
<1> DEFINE t == op[p].target
<1>1. t \in User /\ t # None
  BY TargetIsThere, UserAssumption DEF Writing
<1>2. op[p].kind \in Manages /\ Entitled(op[p])
  BY DEF RacesInv, Knows, KindFits, Entitled, Writing, Manages
<1>3. op[q].kind \in Manages => op[q].target # t
  BY <1>1, <1>2 DEF RacesInv, RacesAreNoted, Given, Writes, Manages
<1>4. op[q].kind \in {"create", "login"} =>
          account[t].email # op[q].email /\ account'[t].email # op[q].email
  <2>1. op[q].kind \in {"create", "login"} => account[t].email # op[q].email
    BY <1>2 DEF RacesInv, HoldersAreNoted
  <2>2. op[p].email # None => op[p].email # op[q].email
    BY <1>2 DEF RacesInv, RacesAreNoted, Given, Writes, Manages
  <2> QED BY <2>1, <2>2
<1>5. op[q].target = None \/ op[q].target \in User
  BY DEF TablesInv, TypeOK, Request
<1> HIDE DEF t
<1>6. \A u \in User : u # t => account'[u] = account[u] /\ preference'[u] = preference[u]
  BY DEF t
<1> QED BY <1>3, <1>4, <1>5, <1>6 DEF Spared, Exists

LEMMA WritersKeepRaces ==
    ASSUME TablesInv, RacesInv, NEW p \in Proc,
           WriteUser(p) \/ DeletePreference(p) \/ MarkUser(p) \/ DeleteUser(p)
    PROVE  RacesInv'
<1> DEFINE t == op[p].target
<1>1. op[p].step \in {"writeUser"} \cup Deleting
  BY DEF WriteUser, DeletePreference, MarkUser, DeleteUser, At, Deleting
<1>2. /\ t \in User /\ t # None /\ account[t] \in Row /\ op[p] \in Request /\ TypeOK
      /\ Knows(op[p]) /\ Fits(op[p])
  BY <1>1, TargetIsThere, UserAssumption DEF Writing, TablesInv, TypeOK, RacesInv
<1>3. \A row \in Row : row # None
  BY UserAssumption
<1>4. faults' = faults /\ tokens' = tokens
  BY DEF WriteUser, DeletePreference, MarkUser, DeleteUser
<1>5. ASSUME Continues(p), Knows(op[p])',
             \/ account' = account
             \/ \E row \in Row :
                   /\ account' = [account EXCEPT ![t] = row]
                   /\ \/ row.email = account[t].email
                      \/ op[p].kind = "update" /\ op[p].email # None /\ row.email = op[p].email,
             preference' = preference \/ preference' = [preference EXCEPT ![t] = "deleted"]
      PROVE  RacesInv'
  <2>1. \A u \in User : u # t => account'[u] = account[u] /\ preference'[u] = preference[u]
    BY <1>2, <1>5 DEF TypeOK
  <2>2. \/ account'[t].email = account[t].email
        \/ op[p].kind = "update" /\ op[p].email # None /\ account'[t].email = op[p].email
    BY <1>2, <1>5 DEF TypeOK
  <2>3. \A q \in Proc : q # p /\ ~op[q].raced => Spared(op[q])
    BY <1>1, <2>1, <2>2, WritersSpare
  <2>4. \A u \in User : Exists(u) => \/ u = t \/ account'[u] = account[u]
    BY <1>2, <1>5 DEF TypeOK
  <2>5. account'[t] # None
    BY <1>2, <1>3, <1>5 DEF TypeOK
  <2>6. \A u \in User : Exists(u) =>
            /\ account'[u] # None
            /\ \/ account'[u].email = account[u].email
               \/ op[p].kind = "update" /\ op[p].email # None /\ account'[u].email = op[p].email
    <3> HIDE DEF t
    <3> QED BY <2>2, <2>4, <2>5 DEF Exists
  <2> QED BY <1>4, <1>5, <2>3, <2>6, ContinuingKeepsRaces
<1>6. CASE WriteUser(p)
  <2> DEFINE row == Updated(account[t], op[p])
  <2>0. op[p].step = "writeUser" /\ op[p].kind = "update" /\ preference' = preference
    BY <1>2, <1>6 DEF WriteUser, At, Knows, KindFits, Writing
  <2>1. CASE Answer(p, "internal") /\ account' = account
    <3>1. Continues(p) /\ Knows(op[p])'
      BY <1>2, <1>4, <2>0, <2>1, AnswerKnows DEF Answers
    <3> QED BY <1>5, <2>0, <2>1, <3>1
  <2>2. CASE account' = [account EXCEPT ![t] = row] /\ Goto(p, "checkUser")
    <3>1. row \in Row /\ (row.email = account[t].email \/ (op[p].email # None /\ row.email = op[p].email))
      BY <1>2, UpdatedRow DEF Updated, Row
    <3>2. Updated(row, op[p]) = row
      BY <1>2, <3>1 DEF Updated, Row
    <3>3. Continues(p) /\ op'[p].step = "checkUser" /\ op'[p].target = t /\ op'[p].answer = "none"
      BY <1>2, <2>0, <2>2, GotoContinues DEF Steps, Knows, KindFits
    <3>4. op'[p].kind = "update" /\ op'[p].email = op[p].email /\ op'[p].password = op[p].password
      BY <2>0, <3>3 DEF Continues
    <3>5. account'[t] = row /\ row # None
      BY <1>2, <1>3, <2>2, <3>1 DEF TypeOK
    <3> HIDE DEF row, t
    <3>6. Updated(account[op[p].target], op[p])' = account'[t] /\ Exists(op[p].target)'
      BY <1>2, <3>2, <3>3, <3>4, <3>5 DEF Updated, Exists
    <3>7. KindFits(op[p])' /\ OwnerKnows(op[p])' /\ UpdaterKnows(op[p])'
      BY <3>3, <3>4, <3>6 DEF KindFits, OwnerKnows, UpdaterKnows, Writing, Deleting
    <3>8. FinderKnows(op[p])' /\ CreatorKnows(op[p])' /\ LoginKnows(op[p])'
      BY <3>3, <3>4 DEF FinderKnows, CreatorKnows, LoginKnows
    <3>9. Knows(op[p])'
      BY <3>7, <3>8 DEF Knows
    <3> QED BY <1>5, <2>0, <2>2, <3>1, <3>3, <3>9
  <2> QED BY <1>6, <2>1, <2>2 DEF WriteUser
<1>7. ASSUME op[p].step \in Deleting, NEW step \in {"markUser", "deleteUser"}, Goto(p, step),
             account'[t].email = account[t].email
      PROVE  Continues(p) /\ Knows(op[p])'
  <2>1. /\ op[p].kind = "delete" /\ op[p].agent # None /\ op[p].agent.id = t
        /\ op[p].raced \/ op[p].agent.email = account[t].email
    BY <1>2, <1>7 DEF Knows, KindFits, OwnerKnows, Fits
  <2>2. /\ Continues(p) /\ op'[p].step = step /\ op'[p].target = t /\ op'[p].answer = "none"
        /\ op'[p].agent = op[p].agent
    BY <1>2, <1>7, GotoContinues DEF Steps, Knows, KindFits, Deleting
  <2>3. op'[p].kind = "delete" /\ op'[p].raced = op[p].raced
    BY <2>1, <2>2 DEF Continues
  <2>4. KindFits(op[p])' /\ (op[p].raced \/ OwnerKnows(op[p])')
    BY <1>7, <2>1, <2>2, <2>3 DEF KindFits, OwnerKnows, Writing, Deleting, Manages
  <2>5. UpdaterKnows(op[p])' /\ FinderKnows(op[p])' /\ CreatorKnows(op[p])' /\ LoginKnows(op[p])'
    BY <2>2, <2>3 DEF UpdaterKnows, FinderKnows, CreatorKnows, LoginKnows
  <2> QED BY <2>2, <2>3, <2>4, <2>5 DEF Knows
<1>8. CASE DeletePreference(p)
  <2>1. /\ op[p].step \in Deleting /\ Goto(p, "markUser") /\ account' = account
        /\ preference' = [preference EXCEPT ![t] = "deleted"]
    BY <1>8 DEF DeletePreference, At, Deleting
  <2>2. Continues(p) /\ Knows(op[p])'
    BY <1>7, <2>1
  <2> QED BY <1>5, <2>1, <2>2
<1>9. CASE MarkUser(p)
  <2> DEFINE row == [account[t] EXCEPT !.marked = TRUE]
  <2>1. row \in Row /\ row.email = account[t].email
    BY <1>2 DEF Row
  <2>2. /\ op[p].step \in Deleting /\ Goto(p, "deleteUser") /\ preference' = preference
        /\ account' = [account EXCEPT ![t] = row]
    BY <1>2, <1>9 DEF MarkUser, At, Deleting, TypeOK
  <2> HIDE DEF row
  <2>3. account'[t] = row
    BY <1>2, <2>2 DEF TypeOK
  <2>4. Continues(p) /\ Knows(op[p])'
    BY <1>7, <2>1, <2>2, <2>3
  <2> QED BY <1>5, <2>1, <2>2, <2>4
<1>10. CASE DeleteUser(p)
  <2> DEFINE row == [account[t] EXCEPT !.deleted = TRUE]
  <2>1. row \in Row /\ row.email = account[t].email
    BY <1>2 DEF Row
  <2>2. /\ op[p].kind = "delete" /\ Answer(p, "ok") /\ preference' = preference
        /\ account' = [account EXCEPT ![t] = row]
    BY <1>2, <1>10 DEF DeleteUser, At, Fits, Deleting, TypeOK
  <2> HIDE DEF row
  <2>3. Continues(p) /\ op'[p].step = "return"
    BY <1>2, <2>2, AnswerContinues DEF Answers
  <2>4. op'[p].kind = "delete"
    BY <2>2, <2>3 DEF Continues
  <2>5. Knows(op[p])'
    BY <2>3, <2>4 DEF Knows, KindFits, OwnerKnows, UpdaterKnows, FinderKnows, CreatorKnows,
                      LoginKnows, Writing, Deleting
  <2> QED BY <1>5, <2>1, <2>2, <2>3, <2>5
<1> QED BY <1>6, <1>8, <1>9, <1>10

(* A create finds the e-mail free, or held by a deleted user, and then has a
   user of its own who nobody else may write.                              *)
LEMMA CreatingKeepsRaces ==
    ASSUME TablesInv, RacesInv, NEW p \in Proc, Insert(p) \/ InsertPreference(p)
    PROVE  RacesInv'
<1>1. /\ Fits(op[p]) /\ Knows(op[p]) /\ op[p] \in Request /\ TypeOK
      /\ faults' = faults /\ tokens' = tokens
  BY DEF TablesInv, StepsFit, TypeOK, RacesInv, Insert, InsertPreference
<1>2. op[p].kind = "create" /\ op[p].answer = "none"
  BY <1>1 DEF Insert, InsertPreference, At, Fits, Knows, KindFits
<1>3. CASE Insert(p)
  <2>0. op[p].step = "insert" /\ preference' = preference
    BY <1>3 DEF Insert, At
  <2>1. CASE Taken(op[p].email) /\ Answer(p, "internal") /\ account' = account
    <3>1. op[p].raced \/ \E u \in User : Deleted(u) /\ account[u].email = op[p].email
      <4>1. PICK u \in User : Exists(u) /\ account[u].email = op[p].email
        BY <2>1 DEF Taken
      <4>2. op[p].raced \/ u \notin LiveWith(op[p].email)
        BY <1>1, <2>0 DEF Knows, FinderKnows
      <4> QED BY <4>1, <4>2 DEF LiveWith, Live, Deleted
    <3> QED BY <1>1, <1>2, <1>3, <2>0, <2>1, <3>1, AnsweringKeepsRaces
            DEF Answers, TablesStay, Insert
  <2>2. ASSUME NEW u \in User, ~Exists(u),
               account' = [account EXCEPT ![u] = NewRow(op[p].email, op[p].password)],
               op' = [op EXCEPT ![p].step = "insertPreference", ![p].target = u]
        PROVE  RacesInv'
    <3> DEFINE r == [op[p] EXCEPT !.step = "insertPreference", !.target = u]
               row == NewRow(op[p].email, op[p].password)
    <3>1. op[p].email \in Email /\ op[p].password \in Password
      BY <1>1, <2>0 DEF Fits, Request
    <3>2. row \in Row /\ row.email = op[p].email /\ row.deleted = FALSE
      BY <3>1 DEF NewRow, Row
    <3>3. op' = [op EXCEPT ![p] = r]
      BY <1>1, <2>2 DEF TypeOK
    <3>4. /\ r \in Request /\ r.kind = op[p].kind /\ r.email = op[p].email
          /\ r.password = op[p].password /\ r.raced = op[p].raced /\ r.agent = op[p].agent
          /\ r.target = u /\ r.step = "insertPreference" /\ r.answer = op[p].answer
      BY <1>1 DEF Request, Steps
    <3> HIDE DEF r, row
    <3>5. Continues(p) /\ op'[p] = r
      BY <1>1, <1>2, <3>3, <3>4, ReplacedContinues DEF Manages
    <3>6. /\ account'[u] = row /\ row # None /\ u # None
          /\ \A v \in User : v # u => account'[v] = account[v]
      BY <1>1, <2>2, <3>2, UserAssumption DEF TypeOK, row
    <3>7. FinderKnows(op[p])'
      BY <3>2, <3>4, <3>5, <3>6 DEF FinderKnows, Live, Exists
    <3>8. /\ KindFits(op[p])' /\ OwnerKnows(op[p])' /\ UpdaterKnows(op[p])'
          /\ CreatorKnows(op[p])' /\ LoginKnows(op[p])'
      BY <1>2, <3>4, <3>5
         DEF KindFits, OwnerKnows, UpdaterKnows, CreatorKnows, LoginKnows, Writing, Deleting
    <3>9. ASSUME NEW q \in Proc, q # p, ~op[q].raced
          PROVE  Spared(op[q])
      <4>1. op[p].email # None /\ op[q].target \in User \cup {None}
        BY <1>1, <2>0 DEF Fits, TypeOK, Request
      <4>2. op[q].email # op[p].email
        BY <1>2, <3>9, <4>1 DEF RacesInv, RacesAreNoted, Given, Writes
      <4>3. Exists(op[q].target) => account'[op[q].target] = account[op[q].target]
        BY <2>2, <3>6, <4>1 DEF Exists
      <4> QED BY <2>0, <2>2, <3>2, <3>6, <4>2, <4>3 DEF Spared
    <3>10. \A v \in User : Exists(v) => account'[v] = account[v] /\ account'[v] # None
      BY <2>2, <3>6 DEF Exists
    <3> QED BY <1>1, <3>5, <3>7, <3>8, <3>9, <3>10, ContinuingKeepsRaces DEF Knows
  <2> QED BY <1>3, <2>1, <2>2 DEF Insert
<1>4. CASE InsertPreference(p)
  <2>1. /\ op[p].step = "insertPreference" /\ Goto(p, "reread") /\ account' = account
        /\ preference' = [preference EXCEPT ![op[p].target] = "live"]
    BY <1>4 DEF InsertPreference, At
  <2>2. op[p].target \in User
    BY <1>1, <2>1, TargetIsThere
  <2>3. /\ preference'[op[p].target] = "live"
        /\ \A u \in User : preference'[u] \in {preference[u], "live"}
    BY <1>1, <2>1, <2>2 DEF TypeOK
  <2>4. /\ Continues(p) /\ op'[p].step = "reread" /\ op'[p].target = op[p].target
        /\ op'[p].answer = "none"
    BY <1>1, <1>2, <2>1, GotoContinues DEF Steps
  <2>5. op'[p].kind = "create" /\ op'[p].email = op[p].email /\ op'[p].raced = op[p].raced
    BY <1>2, <2>4 DEF Continues
  <2>6. op[p].raced \/ (FinderKnows(op[p])' /\ CreatorKnows(op[p])')
    BY <1>1, <2>1, <2>3, <2>4, <2>5 DEF Knows, FinderKnows, CreatorKnows, Live, Exists
  <2>7. KindFits(op[p])' /\ OwnerKnows(op[p])' /\ UpdaterKnows(op[p])' /\ LoginKnows(op[p])'
    BY <2>4, <2>5 DEF KindFits, OwnerKnows, UpdaterKnows, LoginKnows, Writing, Deleting
  <2>8. \A q \in Proc : Spared(op[q])
    BY <2>1, <2>3 DEF Spared, Exists
  <2>9. \A u \in User : Exists(u) => account'[u] = account[u] /\ account'[u] # None
    BY <2>1 DEF Exists
  <2> QED BY <1>1, <2>4, <2>5, <2>6, <2>7, <2>8, <2>9, ContinuingKeepsRaces DEF Knows
<1> QED BY <1>3, <1>4

(***************************************************************************)
(* The beginning and the end of a request.                                 *)
(***************************************************************************)
LEMMA BeginKeepsRaces ==
    ASSUME TablesInv, RacesInv, NEW p \in Proc, NEW request \in Request, Begin(p, request),
           request.step \in {"check", "reread", "loadUser", "find"}, request.answer = "none",
           request.step = "check" => request.kind = "create",
           request.step = "reread" => request.kind = "get",
           request.step = "loadUser" => request.kind \in Manages,
           request.step = "find" => request.kind = "login",
           request.kind \in Manages <=> request.agent # None,
           request.agent # None => Exists(request.agent.id)
    PROVE  RacesInv'
<1> DEFINE Raced(q) == [op[q] EXCEPT !.raced = @ \/ Meets(op[q], request)]
           New == [request EXCEPT !.raced = \E o \in Proc : Meets(request, op[o])]
           Same(r, s) == /\ r.kind = s.kind /\ r.email = s.email /\ r.password = s.password
                         /\ r.agent = s.agent /\ r.target = s.target /\ r.seen = s.seen
                         /\ r.step = s.step /\ r.answer = s.answer
<1>1. op' = [q \in Proc |-> IF q = p THEN New ELSE Raced(q)]
  BY DEF Begin
<1>2. New \in Request /\ Same(New, request) /\ New.raced = \E o \in Proc : Meets(request, op[o])
  BY DEF Request
<1>3. ASSUME NEW q \in Proc
      PROVE  /\ Raced(q) \in Request /\ Same(Raced(q), op[q])
             /\ Raced(q).raced = (op[q].raced \/ Meets(op[q], request))
  <2> DEFINE b == op[q].raced \/ Meets(op[q], request)
  <2>1. op[q] \in Request /\ b \in BOOLEAN
    BY DEF TablesInv, TypeOK
  <2>2. Raced(q) = [op[q] EXCEPT !.raced = b]
    OBVIOUS
  <2> HIDE DEF b, Raced
  <2>3. Raced(q) \in Request
    BY <2>1, <2>2, SMTT(30) DEF Request
  <2>4. Same(Raced(q), op[q]) /\ Raced(q).raced = b
    BY <2>1, <2>2, SMTT(30) DEF Request
  <2> QED BY <2>3, <2>4 DEF b
<1> HIDE DEF New, Raced
<1>4. op'[p] = New /\ \A q \in Proc : q # p => op'[q] = Raced(q)
  BY <1>1
<1>5. account' = account /\ preference' = preference /\ tokens' = tokens /\ faults' = faults
  BY DEF Begin
<1>6. \A q \in Proc : Given(op[q])' = Given(op'[q])
  BY DEF Given
<1>7. RacesAreNoted'
  <2> SUFFICES ASSUME NEW q \in Proc, NEW s \in Proc, q # s,
                      op'[q].kind \in Writes \/ op'[s].kind \in Writes,
                      Given(op'[q]) \cap Given(op'[s]) # {}
               PROVE  op'[q].raced
    BY DEF RacesAreNoted, Given
  <2>1. \A r \in Request : Given(r) \subseteq Touches(r)
    BY DEF Given, Touches
  <2>2. CASE q = p
    <3>1. Given(request) \cap Given(op[s]) # {} /\ (request.kind \in Writes \/ op[s].kind \in Writes)
      BY <1>2, <1>3, <1>4, <2>2 DEF Given
    <3>2. Meets(request, op[s])
      BY <2>1, <3>1 DEF Meets, TablesInv, TypeOK
    <3> QED BY <1>2, <1>4, <2>2, <3>2
  <2>3. CASE s = p
    <3>1. Given(op[q]) \cap Given(request) # {} /\ (op[q].kind \in Writes \/ request.kind \in Writes)
      BY <1>2, <1>3, <1>4, <2>3 DEF Given
    <3>2. Meets(op[q], request)
      BY <2>1, <3>1 DEF Meets, TablesInv, TypeOK
    <3> QED BY <1>3, <1>4, <2>3, <3>2
  <2>4. CASE q # p /\ s # p
    <3>0. op'[q] = Raced(q) /\ op'[s] = Raced(s)
      BY <1>4, <2>4
    <3>1. Given(op[q]) \cap Given(op[s]) # {} /\ (op[q].kind \in Writes \/ op[s].kind \in Writes)
      BY <1>3, <3>0, ZenonT(60) DEF Given
    <3>2. op[q].raced
      BY <3>1 DEF RacesInv, RacesAreNoted
    <3> QED BY <1>3, <1>4, <2>4, <3>2
  <2> QED BY <2>2, <2>3, <2>4
<1>8. TokensNameUsers'
  <2>1. \A q \in Proc : op'[q].agent # None => Exists(op'[q].agent.id)
    BY <1>2, <1>3, <1>4 DEF RacesInv, TokensNameUsers
  <2>2. \A t \in tokens' : Exists(t.id)
    BY <1>5 DEF RacesInv, TokensNameUsers
  <2> QED BY <1>5, <2>1, <2>2 DEF TokensNameUsers, Exists
<1>9. HoldersAreNoted'
  <2> SUFFICES ASSUME NEW q \in Proc, NEW s \in Proc,
                      op'[q].kind \in {"create", "login"}, Entitled(op'[s]),
                      account[op'[s].target].email = op'[q].email
               PROVE  op'[q].raced
    BY <1>5 DEF HoldersAreNoted, Entitled
  <2>1. q # s
    BY DEF Entitled, Manages
  <2>2. ASSUME NEW w \in Request, NEW h \in Request, Entitled(w), Exists(w.agent.id),
               h.kind \in {"create", "login"}, account[w.target].email = h.email
        PROVE  Meets(w, h) /\ Meets(h, w)
    <3>1. account[w.target].email \in Touches(w) /\ account[w.target].email \in Touches(h)
      <4>1. Exists(w.target) /\ account[w.target].email # None
        <5>1. Exists(w.target) /\ w.target \in User
          BY <2>2 DEF Entitled, Exists, Request
        <5>2. account[w.target].email \in Email
          BY <5>1 DEF Exists, TablesInv, TypeOK, Row
        <5> QED BY <5>1, <5>2, UserAssumption
      <4> QED BY <2>2, <4>1 DEF Touches
    <3>2. w.kind \in Writes
      BY <2>2 DEF Entitled, Manages, Writes
    <3> QED BY <3>1, <3>2 DEF Meets
  <2>3. \A o \in Proc : op[o] \in Request /\ (op[o].agent # None => Exists(op[o].agent.id))
    BY DEF TablesInv, TypeOK, RacesInv, TokensNameUsers
  <2>4. CASE q = p
    <3>1. Entitled(op[s]) /\ account[op[s].target].email = request.email
          /\ request.kind \in {"create", "login"}
      BY <1>2, <1>3, <1>4, <2>1, <2>4 DEF Entitled
    <3>2. Meets(request, op[s])
      BY <2>2, <2>3, <3>1 DEF Entitled
    <3> QED BY <1>2, <1>4, <2>4, <3>2
  <2>5. CASE s = p
    <3>1. Entitled(request) /\ account[request.target].email = op[q].email
          /\ op[q].kind \in {"create", "login"}
      BY <1>2, <1>3, <1>4, <2>1, <2>5 DEF Entitled
    <3>2. Meets(op[q], request)
      BY <2>2, <2>3, <3>1 DEF Entitled
    <3> QED BY <1>3, <1>4, <2>1, <2>5, <3>2
  <2>6. CASE q # p /\ s # p
    <3>1. Entitled(op[s]) /\ account[op[s].target].email = op[q].email
          /\ op[q].kind \in {"create", "login"}
      BY <1>3, <1>4, <2>6 DEF Entitled
    <3>2. op[q].raced
      BY <3>1 DEF RacesInv, HoldersAreNoted
    <3> QED BY <1>3, <1>4, <2>6, <3>2
  <2> QED BY <2>4, <2>5, <2>6
<1>10. ASSUME NEW q \in Proc
       PROVE  Knows(op[q])'
  <2>1. CASE q = p
    <3>1. /\ op'[q].step = request.step /\ op'[q].kind = request.kind /\ op'[q].answer = "none"
          /\ op'[q].agent = request.agent
      BY <1>2, <1>4, <2>1
    <3>2. KindFits(op[q])'
      BY <3>1 DEF KindFits, Writing, Deleting
    <3>3. /\ OwnerKnows(op[q])' /\ UpdaterKnows(op[q])' /\ FinderKnows(op[q])'
          /\ CreatorKnows(op[q])' /\ LoginKnows(op[q])'
      BY <3>1 DEF OwnerKnows, UpdaterKnows, FinderKnows, CreatorKnows, LoginKnows, Writing, Deleting,
                  Manages
    <3> QED BY <3>2, <3>3 DEF Knows
  <2>2. CASE q # p
    <3>1. op'[q] \in Request /\ Same(op'[q], op[q]) /\ (op[q].raced => op'[q].raced)
      BY <1>3, <1>4, <2>2
    <3>2. Knows(op[q])
      BY DEF RacesInv
    <3>3. KindFits(op'[q])
      BY <3>1, <3>2 DEF Knows, KindFits
    <3>4. ~op'[q].raced => /\ OwnerKnows(op'[q]) /\ UpdaterKnows(op'[q]) /\ FinderKnows(op'[q])
                           /\ CreatorKnows(op'[q]) /\ LoginKnows(op'[q])
      BY <3>1, <3>2 DEF Knows, OwnerKnows, UpdaterKnows, FinderKnows, CreatorKnows, LoginKnows, Updated
    <3>5. KindFits(op[q])'
      BY <3>3 DEF KindFits
    <3>6. ~op'[q].raced => /\ OwnerKnows(op[q])' /\ UpdaterKnows(op[q])' /\ LoginKnows(op[q])'
      BY <1>5, <3>4 DEF OwnerKnows, UpdaterKnows, LoginKnows, Updated, Live, Exists
    <3>7. ~op'[q].raced => /\ FinderKnows(op[q])' /\ CreatorKnows(op[q])'
      BY <1>5, <3>4 DEF FinderKnows, CreatorKnows, LiveWith, Live, Deleted, Exists
    <3> QED BY <3>5, <3>6, <3>7 DEF Knows
  <2> QED BY <2>1, <2>2
<1> QED BY <1>7, <1>8, <1>9, <1>10 DEF RacesInv

LEMMA StartKeepsRaces ==
    ASSUME TablesInv, RacesInv, NEW p \in Proc, Start(p)
    PROVE  RacesInv'
<1> USE DEF Idle, Kinds, Steps, Answers, Manages
<1>0. Idle \in Request /\ tokens \subseteq Token
  BY DEF Request, TablesInv, TypeOK
<1>1. ASSUME NEW e \in Email, NEW w \in Password, Login(p, e, w)
      PROVE  RacesInv'
  <2> DEFINE r == [Idle EXCEPT !.kind = "login", !.email = e, !.password = w, !.step = "find"]
  <2>1. r \in Request
    BY <1>0 DEF Request
  <2>2. r.kind = "login" /\ r.step = "find" /\ r.answer = "none" /\ r.agent = None
    OBVIOUS
  <2>3. Begin(p, r)
    BY <1>1 DEF Login
  <2> HIDE DEF r
  <2> QED BY <2>1, <2>2, <2>3, BeginKeepsRaces
<1>2. ASSUME NEW e \in Email, NEW w \in Password, Create(p, e, w)
      PROVE  RacesInv'
  <2> DEFINE r == [Idle EXCEPT !.kind = "create", !.email = e, !.password = w, !.step = "check"]
  <2>1. r \in Request
    BY <1>0 DEF Request
  <2>2. r.kind = "create" /\ r.step = "check" /\ r.answer = "none" /\ r.agent = None
    OBVIOUS
  <2>3. Begin(p, r)
    BY <1>2 DEF Create
  <2> HIDE DEF r
  <2> QED BY <2>1, <2>2, <2>3, BeginKeepsRaces
<1>3. ASSUME NEW u \in User, Get(p, u)
      PROVE  RacesInv'
  <2> DEFINE r == [Idle EXCEPT !.kind = "get", !.target = u, !.step = "reread"]
  <2>1. r \in Request
    BY <1>0 DEF Request
  <2>2. r.kind = "get" /\ r.step = "reread" /\ r.answer = "none" /\ r.agent = None
    OBVIOUS
  <2>3. Begin(p, r)
    BY <1>3 DEF Get
  <2> HIDE DEF r
  <2> QED BY <2>1, <2>2, <2>3, BeginKeepsRaces
<1>4. ASSUME NEW agent \in tokens
      PROVE  agent \in Token /\ agent # None /\ Exists(agent.id)
  <2>1. agent \in Token /\ Exists(agent.id)
    BY <1>0, <1>4 DEF RacesInv, TokensNameUsers
  <2> QED BY <2>1, UserAssumption
<1>5. ASSUME NEW agent \in tokens, NEW u \in User, Delete(p, agent, u)
      PROVE  RacesInv'
  <2> DEFINE r == [Idle EXCEPT !.kind = "delete", !.agent = agent, !.target = u, !.step = "loadUser"]
  <2>1. r \in Request
    BY <1>0, <1>4 DEF Request
  <2>2. r.kind = "delete" /\ r.step = "loadUser" /\ r.answer = "none" /\ r.agent = agent
    OBVIOUS
  <2>3. Begin(p, r)
    BY <1>5 DEF Delete
  <2> HIDE DEF r
  <2> QED BY <1>4, <2>1, <2>2, <2>3, BeginKeepsRaces
<1>6. ASSUME NEW agent \in tokens, NEW u \in User, NEW change \in Change, Update(p, agent, u, change)
      PROVE  RacesInv'
  <2> DEFINE r == [Idle EXCEPT !.kind = "update", !.agent = agent, !.target = u,
                               !.email = change.email, !.password = change.password,
                               !.prefers = change.prefers, !.step = "loadUser"]
  <2>0. change \in [email : Email \cup {None}, password : Password \cup {None}, prefers : BOOLEAN]
    BY UserAssumption
  <2>1. r \in Request
    BY <1>0, <1>4, <2>0 DEF Request
  <2>2. r.kind = "update" /\ r.step = "loadUser" /\ r.answer = "none" /\ r.agent = agent
    OBVIOUS
  <2>3. Begin(p, r)
    BY <1>6 DEF Update
  <2> HIDE DEF r
  <2> QED BY <1>4, <2>1, <2>2, <2>3, BeginKeepsRaces
<1> QED BY <1>1, <1>2, <1>3, <1>5, <1>6 DEF Start

(* Where the tables stay and each request is as it was, or is over. *)
LEMMA EndingKeepsRaces ==
    ASSUME TablesInv, RacesInv, \A q \in Proc : op'[q] \in {op[q], Idle},
           UNCHANGED <<account, preference, tokens, faults>>
    PROVE  RacesInv'
<1>1. /\ Idle.kind = "idle" /\ Idle.step = "idle" /\ Idle.answer = "none" /\ Idle.agent = None
      /\ Given(Idle) = {}
  BY DEF Idle, Given, Manages
<1>2. RacesAreNoted'
  <2> SUFFICES ASSUME NEW q \in Proc, NEW s \in Proc, q # s,
                      op'[q].kind \in Writes \/ op'[s].kind \in Writes,
                      Given(op'[q]) \cap Given(op'[s]) # {}
               PROVE  op'[q].raced
    BY DEF RacesAreNoted, Given
  <2>1. op'[q] = op[q] /\ op'[s] = op[s]
    BY <1>1
  <2> QED BY <2>1 DEF RacesInv, RacesAreNoted
<1>3. TokensNameUsers'
  BY <1>1 DEF RacesInv, TokensNameUsers, Exists
<1>4. HoldersAreNoted'
  <2> SUFFICES ASSUME NEW q \in Proc, NEW s \in Proc,
                      op'[q].kind \in {"create", "login"}, Entitled(op'[s]),
                      account[op'[s].target].email = op'[q].email
               PROVE  op'[q].raced
    BY DEF HoldersAreNoted, Entitled
  <2>1. op'[q] = op[q] /\ op'[s] = op[s]
    BY <1>1 DEF Entitled
  <2> QED BY <2>1 DEF RacesInv, HoldersAreNoted
<1>5. ASSUME NEW q \in Proc
      PROVE  Knows(op[q])'
  <2>1. Knows(op'[q])
    <3>1. Knows(Idle)
      BY <1>1 DEF Knows, KindFits, OwnerKnows, UpdaterKnows, FinderKnows, CreatorKnows, LoginKnows,
                  Writing, Deleting
    <3> QED BY <3>1 DEF RacesInv
  <2>2. KindFits(op[q])'
    BY <2>1 DEF Knows, KindFits
  <2>3. op'[q].raced \/ (OwnerKnows(op[q])' /\ UpdaterKnows(op[q])' /\ LoginKnows(op[q])')
    BY <2>1 DEF Knows, OwnerKnows, UpdaterKnows, LoginKnows, Updated, Live, Exists
  <2>4. op'[q].raced \/ (FinderKnows(op[q])' /\ CreatorKnows(op[q])')
    BY <2>1 DEF Knows, FinderKnows, CreatorKnows, LiveWith, Live, Deleted, Exists
  <2> QED BY <2>2, <2>3, <2>4 DEF Knows
<1> QED BY <1>2, <1>3, <1>4, <1>5 DEF RacesInv

LEMMA NextKeepsRaces ==
    ASSUME TablesInv, RacesInv, [Next]_vars
    PROVE  RacesInv'
<1>1. ASSUME NEW p \in Proc, Start(p)
      PROVE  RacesInv'
  BY <1>1, StartKeepsRaces
<1>2. ASSUME NEW p \in Proc, Advance(p)
      PROVE  RacesInv'
  <2>1. CASE Return(p)
    BY <2>1, EndingKeepsRaces DEF Return, TablesInv, TypeOK
  <2> QED BY <1>2, <2>1, ReadingKeepsRaces, FindingKeepsRaces, WritersKeepRaces, CreatingKeepsRaces
          DEF Advance
<1>3. ASSUME NEW p \in Proc, Throw(p)
      PROVE  RacesInv'
  BY <1>3, ReadingKeepsRaces
<1>4. ASSUME NEW query \in Query, ListUsers(query)
      PROVE  RacesInv'
  BY <1>4, EndingKeepsRaces DEF ListUsers
<1>5. CASE UNCHANGED vars
  BY <1>5, EndingKeepsRaces DEF vars
<1> QED BY <1>1, <1>2, <1>3, <1>4, <1>5 DEF Next, Quiet

(***************************************************************************)
(* What a step does to the tables.                                         *)
(***************************************************************************)

Inserts(u, row) == ~Exists(u) /\ preference[u] = "none" /\ ~Taken(row.email) /\ ~row.deleted

Updates(u, row) ==
    /\ Exists(u) /\ row.deleted = account[u].deleted
    /\ row.email = account[u].email \/ ~Taken(row.email)

Buries(u, row) ==
    /\ Exists(u) /\ row.email = account[u].email /\ preference[u] = "deleted"
    /\ account[u].deleted => row.deleted

WritesRow(u, row) ==
    /\ Inserts(u, row) \/ Updates(u, row) \/ Buries(u, row)
    /\ account' = [account EXCEPT ![u] = row] /\ UNCHANGED preference

WritesPreference(u) ==
    /\ \/ Live(u) /\ preference[u] = "none" /\ preference' = [preference EXCEPT ![u] = "live"]
       \/ /\ Exists(u) /\ preference[u] # "none"
          /\ preference' = [preference EXCEPT ![u] = "deleted"]
    /\ UNCHANGED account

(* No step changes more than one row of one of the tables. *)
LEMMA StepsOfTables ==
    ASSUME TablesInv, Next
    PROVE  \/ UNCHANGED <<account, preference>>
           \/ \E u \in User, row \in Row : WritesRow(u, row)
           \/ \E u \in User : WritesPreference(u)
<1>1. ASSUME NEW p \in Proc, Start(p) \/ Throw(p) PROVE UNCHANGED <<account, preference>>
  BY <1>1 DEF Start, Login, Create, Get, Delete, Update, Begin, Throw
<1>2. ASSUME NEW query \in Query, ListUsers(query) PROVE UNCHANGED <<account, preference>>
  BY <1>2 DEF ListUsers
<1>3. Quiet => UNCHANGED <<account, preference>>
  BY DEF Quiet, vars
<1>4. ASSUME NEW p \in Proc, Insert(p), ~UNCHANGED <<account, preference>>
      PROVE  \E u \in User, row \in Row : WritesRow(u, row)
  <2> DEFINE row == NewRow(op[p].email, op[p].password)
  <2>1. PICK u \in User : ~Exists(u) /\ account' = [account EXCEPT ![u] = row]
    BY <1>4 DEF Insert
  <2>2. op[p].step = "insert" /\ op[p] \in Request /\ ~Taken(op[p].email) /\ UNCHANGED preference
    BY <1>4 DEF Insert, At, TablesInv, TypeOK
  <2>3. op[p].email \in Email /\ op[p].password \in Password
    BY <2>2 DEF TablesInv, StepsFit, Fits, Request
  <2>4. row \in Row /\ row.email = op[p].email /\ ~row.deleted
    BY <2>3 DEF NewRow, Row
  <2>5. preference[u] = "none"
    BY <2>1 DEF TablesInv, DeletedInOrder
  <2> HIDE DEF row
  <2> QED BY <2>1, <2>2, <2>4, <2>5 DEF WritesRow, Inserts
<1>5. ASSUME NEW p \in Proc, InsertPreference(p) \/ DeletePreference(p)
      PROVE  \E u \in User : WritesPreference(u)
  <2> DEFINE u == op[p].target
  <2>1. op[p].step \in {"insertPreference"} \cup Deleting
    BY <1>5 DEF InsertPreference, DeletePreference, At, Deleting
  <2>2. /\ u \in User /\ account[u] # None /\ account[u] \in Row /\ Fits(op[p])
        /\ account[u].deleted => account[u].marked
        /\ account[u].marked => preference[u] = "deleted"
    BY <2>1, TargetIsThere
  <2>3. CASE InsertPreference(p)
    <3>1. preference[u] = "none"
      BY <2>2, <2>3 DEF InsertPreference, At, Fits
    <3>2. Live(u)
      BY <2>2, <3>1, UserAssumption DEF Live, Exists
    <3> QED BY <2>2, <2>3, <3>1, <3>2 DEF InsertPreference, WritesPreference
  <2>4. CASE DeletePreference(p)
    <3>1. preference[u] # "none" /\ Exists(u)
      BY <2>2, <2>4 DEF DeletePreference, At, Fits, Deleting
    <3> QED BY <2>2, <2>4, <3>1 DEF DeletePreference, WritesPreference
  <2> QED BY <1>5, <2>3, <2>4
<1>6. ASSUME NEW p \in Proc, WriteUser(p) \/ MarkUser(p) \/ DeleteUser(p),
             ~UNCHANGED <<account, preference>>
      PROVE  \E u \in User, row \in Row : WritesRow(u, row)
  <2> DEFINE u == op[p].target
  <2>1. op[p].step \in Writing \cup Deleting
    BY <1>6 DEF WriteUser, MarkUser, DeleteUser, At, Writing, Deleting
  <2>2. u \in User /\ account[u] # None /\ account[u] \in Row /\ op[p] \in Request /\ Fits(op[p])
    BY <2>1, TargetIsThere DEF TablesInv, TypeOK
  <2>3. Exists(u)
    BY <2>2, UserAssumption DEF Exists
  <2>4. CASE WriteUser(p)
    <3> DEFINE row == Updated(account[u], op[p])
    <3>1. row \in Row /\ row.deleted = account[u].deleted
      BY <2>2, UpdatedRow
    <3>2. /\ row.email = account[u].email \/ ~Taken(row.email)
          /\ account' = [account EXCEPT ![u] = row] /\ UNCHANGED preference
      BY <1>6, <2>4 DEF WriteUser
    <3> HIDE DEF row
    <3> QED BY <2>2, <2>3, <3>1, <3>2 DEF WritesRow, Updates
  <2>5. CASE MarkUser(p) \/ DeleteUser(p)
    <3> DEFINE marked == [account[u] EXCEPT !.marked = TRUE]
               deleted == [account[u] EXCEPT !.deleted = TRUE]
    <3>1. preference[u] = "deleted" /\ UNCHANGED preference
      BY <2>2, <2>5 DEF MarkUser, DeleteUser, At, Fits
    <3>2. /\ marked \in Row /\ marked.email = account[u].email /\ marked.deleted = account[u].deleted
          /\ deleted \in Row /\ deleted.email = account[u].email /\ deleted.deleted
      BY <2>2 DEF Row
    <3>3. account' = [account EXCEPT ![u] = marked] \/ account' = [account EXCEPT ![u] = deleted]
      BY <2>2, <2>5 DEF MarkUser, DeleteUser, TablesInv, TypeOK
    <3> HIDE DEF marked, deleted
    <3> QED BY <2>2, <2>3, <3>1, <3>2, <3>3 DEF WritesRow, Buries
  <2> QED BY <1>6, <2>4, <2>5
<1>7. ASSUME NEW p \in Proc, Advance(p), ~Insert(p), ~InsertPreference(p), ~DeletePreference(p),
             ~WriteUser(p), ~MarkUser(p), ~DeleteUser(p)
      PROVE  UNCHANGED <<account, preference>>
  BY <1>7 DEF Advance, CheckEmail, RecheckEmail, Reread, LoadUser, LoadPreference, CheckUser,
              WritePreference, CheckPreference, FindUser, LoadWithPassword, IssueToken, Return
<1> QED BY <1>1, <1>2, <1>3, <1>4, <1>5, <1>6, <1>7 DEF Next

(* The index keeps e-mails unique. *)
LEMMA EmailsStayUnique ==
    ASSUME TablesInv, EmailsAreUnique, [Next]_vars
    PROVE  EmailsAreUnique'
<1>1. CASE UNCHANGED account
  BY <1>1 DEF EmailsAreUnique, Exists
<1>2. ASSUME NEW u \in User, NEW row \in Row, WritesRow(u, row)
      PROVE  EmailsAreUnique'
  <2>1. account' = [account EXCEPT ![u] = row] /\ account \in [User -> Row \cup {None}]
    BY <1>2 DEF WritesRow, TablesInv, TypeOK
  <2>2. \A v \in User : v # u /\ Exists(v) => account[v].email # row.email
    BY <1>2 DEF WritesRow, Inserts, Updates, Buries, Taken, EmailsAreUnique
  <2>3. account'[u] = row /\ \A v \in User : v # u => account'[v] = account[v]
    BY <2>1
  <2> QED BY <2>2, <2>3 DEF EmailsAreUnique, Exists
<1>3. UNCHANGED vars => UNCHANGED account
  BY DEF vars
<1> QED BY <1>1, <1>2, <1>3, StepsOfTables DEF WritesPreference

(* The invariant of the requests and the tables: what the tables hold, and
   what each request that did not race with another may rely on.           *)
THEOREM UsersInvariant == Spec => []UsersInv
<1>1. Init => RacesInv
  <2> SUFFICES ASSUME Init PROVE RacesInv
    OBVIOUS
  <2>1. /\ Idle.kind = "idle" /\ Idle.step = "idle" /\ Idle.answer = "none" /\ Idle.agent = None
    BY DEF Idle
  <2>2. tokens = {} /\ \A p \in Proc : op[p] = Idle
    BY DEF Init
  <2>3. RacesAreNoted /\ TokensNameUsers /\ HoldersAreNoted
    BY <2>1, <2>2 DEF RacesAreNoted, TokensNameUsers, HoldersAreNoted, Writes
  <2>4. Knows(Idle)
    BY <2>1 DEF Knows, KindFits, OwnerKnows, UpdaterKnows, FinderKnows, CreatorKnows, LoginKnows,
                Writing, Deleting
  <2> QED BY <2>2, <2>3, <2>4 DEF RacesInv
<1>2. TablesInv /\ RacesInv /\ [Next]_vars => RacesInv'
  BY NextKeepsRaces
<1>3. Init => EmailsAreUnique
  BY DEF Init, EmailsAreUnique, Exists
<1>4. TablesInv /\ EmailsAreUnique /\ [Next]_vars => EmailsAreUnique'
  BY EmailsStayUnique
<1>5. TablesInv /\ EmailsAreUnique /\ RacesInv => UsersInv
  BY DEF UsersInv
<1> QED BY <1>1, <1>2, <1>3, <1>4, <1>5, TablesInvariant, PTL DEF Spec

(* A create for an e-mail in use is a conflict: where no query failed and no
   request raced with it, only a deleted user's e-mail makes it internal.  *)
THEOREM DuplicatesAreConflicts == Spec => []DuplicateIsConflict
<1>1. UsersInv => DuplicateIsConflict
  <2> SUFFICES ASSUME UsersInv, NEW p \in Proc, op[p].kind = "create", op[p].answer = "internal",
                      ~op[p].raced, faults = 0
               PROVE  \E u \in User : Deleted(u) /\ account[u].email = op[p].email
    BY DEF DuplicateIsConflict
  <2> QED BY DEF UsersInv, RacesInv, Knows, CreatorKnows
<1> QED BY <1>1, UsersInvariant, PTL

(* An update that answers ok has left what it was asked for. *)
THEOREM UpdatesTakeEffect == Spec => []UpdateTakesEffect
<1>1. UsersInv => UpdateTakesEffect
  BY DEF UpdateTakesEffect, UsersInv, RacesInv, Knows, UpdaterKnows
<1> QED BY <1>1, UsersInvariant, PTL

(* Only an issue of a token adds one, and only four steps write a user. *)
LEMMA OthersIssueNothing ==
    ASSUME Next
    PROVE  tokens' = tokens \/ \E p \in Proc : IssueToken(p)
<1>1. ASSUME NEW p \in Proc, Start(p) PROVE tokens' = tokens
  BY <1>1 DEF Start, Login, Create, Get, Delete, Update, Begin
<1>2. ASSUME NEW p \in Proc, Advance(p), ~IssueToken(p) PROVE tokens' = tokens
  BY <1>2 DEF Advance, CheckEmail, RecheckEmail, Insert, InsertPreference, Reread, LoadUser,
              LoadPreference, WriteUser, CheckUser, WritePreference, CheckPreference,
              DeletePreference, MarkUser, DeleteUser, FindUser, LoadWithPassword, Return
<1>3. ASSUME NEW p \in Proc, Throw(p) PROVE tokens' = tokens
  BY <1>3 DEF Throw
<1>4. ASSUME NEW query \in Query, ListUsers(query) PROVE tokens' = tokens
  BY <1>4 DEF ListUsers
<1>5. Quiet => tokens' = tokens
  BY DEF Quiet, vars
<1> QED BY <1>1, <1>2, <1>3, <1>4, <1>5 DEF Next

LEMMA OthersWriteNoUser ==
    ASSUME Next
    PROVE  \/ account' = account
           \/ \E p \in Proc : Insert(p) \/ WriteUser(p) \/ MarkUser(p) \/ DeleteUser(p)
<1>1. ASSUME NEW p \in Proc, Start(p) PROVE account' = account
  BY <1>1 DEF Start, Login, Create, Get, Delete, Update, Begin
<1>2. ASSUME NEW p \in Proc, Advance(p), ~Insert(p), ~WriteUser(p), ~MarkUser(p), ~DeleteUser(p)
      PROVE  account' = account
  BY <1>2 DEF Advance, CheckEmail, RecheckEmail, InsertPreference, Reread, LoadUser,
              LoadPreference, CheckUser, WritePreference, CheckPreference,
              DeletePreference, FindUser, LoadWithPassword, IssueToken, Return
<1>3. ASSUME NEW p \in Proc, Throw(p) PROVE account' = account
  BY <1>3 DEF Throw
<1>4. ASSUME NEW query \in Query, ListUsers(query) PROVE account' = account
  BY <1>4 DEF ListUsers
<1>5. Quiet => account' = account
  BY DEF Quiet, vars
<1> QED BY <1>1, <1>2, <1>3, <1>4, <1>5 DEF Next

(* A step that issues a token issues it to the live user who has the e-mail
   it bears and the password that was given.                               *)
THEOREM TokensAreOfTheirUsers == Spec => TokensAreGenuine
<1> DEFINE Genuine == \A t \in tokens' \ tokens :
                         \E p \in Proc :
                            /\ op[p].kind = "login" /\ op[p].target = t.id
                            /\ op[p].raced \/ /\ Live(t.id)
                                              /\ account[t.id].email = t.email
                                              /\ account[t.id].password = op[p].password
<1>1. ASSUME UsersInv, Next
      PROVE  Genuine
  <2>1. tokens' = tokens \/ \E p \in Proc : IssueToken(p)
    BY <1>1, OthersIssueNothing
  <2>2. ASSUME NEW p \in Proc, IssueToken(p)
        PROVE  Genuine
    <3> DEFINE t == [id |-> op[p].target, email |-> op[p].seen]
    <3>1. tokens' = tokens \cup {t} /\ op[p].step = "issue" /\ Knows(op[p])
      BY <1>1, <2>2 DEF IssueToken, At, UsersInv, RacesInv
    <3>2. t.id = op[p].target /\ t.email = op[p].seen /\ op[p].kind = "login"
      BY <3>1 DEF Knows, KindFits
    <3>3. op[p].raced \/ /\ Live(op[p].target) /\ account[op[p].target].email = op[p].seen
                         /\ account[op[p].target].password = op[p].password
      BY <3>1 DEF Knows, FinderKnows, LoginKnows
    <3> HIDE DEF t
    <3> QED BY <3>1, <3>2, <3>3
  <2> HIDE DEF Genuine
  <2>3. tokens' = tokens => Genuine
    BY DEF Genuine
  <2> QED BY <2>1, <2>2, <2>3
<1>2. UsersInv /\ [Next]_vars => [Genuine]_vars
  <2> HIDE DEF Genuine
  <2> QED BY <1>1
<1> QED BY <1>2, UsersInvariant, PTL DEF Spec, TokensAreGenuine

(* A step that changes a user is one of a request whose token names the user,
   by id and by the e-mail the user has.                                   *)
THEOREM OnlyOwnersWrite == Spec => OwnersOnly
<1> DEFINE Owned == \A u \in User :
                       Exists(u) /\ account'[u] # account[u] =>
                          \E p \in Proc :
                             /\ op[p] # op'[p]
                             /\ op[p].target = u
                             /\ op[p].agent.id = u
                             /\ op[p].raced \/ op[p].agent.email = account[u].email
<1>1. ASSUME UsersInv, Next
      PROVE  Owned
  <2>1. account' = account \/ \E p \in Proc : Insert(p) \/ WriteUser(p) \/ MarkUser(p) \/ DeleteUser(p)
    BY <1>1, OthersWriteNoUser
  <2>2. account' = account => Owned
    OBVIOUS
  <2>3. ASSUME NEW p \in Proc, Insert(p)
        PROVE  Owned
    BY <1>1, <2>3 DEF Insert, UsersInv, TablesInv, TypeOK, Exists
  <2>4. ASSUME NEW p \in Proc, WriteUser(p) \/ MarkUser(p) \/ DeleteUser(p)
        PROVE  Owned
    <3> DEFINE t == op[p].target
    <3>1. op[p].step \in {"writeUser"} \cup Deleting
      BY <2>4 DEF WriteUser, MarkUser, DeleteUser, At, Deleting
    <3>2. /\ t \in User /\ Knows(op[p]) /\ op[p] \in Request /\ TypeOK
      BY <1>1, <3>1, TargetIsThere DEF UsersInv, TablesInv, RacesInv, TypeOK, Writing
    <3>3. t = op[p].agent.id /\ (op[p].raced \/ op[p].agent.email = account[t].email)
      BY <3>1, <3>2 DEF Knows, KindFits, OwnerKnows
    <3>4. \A u \in User : u # t => account'[u] = account[u]
      BY <2>4, <3>2 DEF WriteUser, MarkUser, DeleteUser, TypeOK
    <3>5. op'[p] # op[p]
      <4>1. op'[p].step \in {"return", "checkUser", "deleteUser"}
        BY <2>4, <3>2 DEF WriteUser, MarkUser, DeleteUser, Goto, Answer, TypeOK, Request
      <4>2. op[p].step = "deleteUser" => op'[p].step = "return"
        BY <2>4, <3>2 DEF WriteUser, MarkUser, DeleteUser, At, Answer, TypeOK, Request
      <4> QED BY <3>1, <4>1, <4>2 DEF Deleting
    <3> HIDE DEF t
    <3>6. op[p].target = t
      BY DEF t
    <3> QED BY <3>3, <3>4, <3>5, <3>6
  <2> HIDE DEF Owned
  <2> QED BY <2>1, <2>2, <2>3, <2>4
<1>2. UsersInv /\ [Next]_vars => [Owned]_vars
  <2> HIDE DEF Owned
  <2> QED BY <1>1
<1> QED BY <1>2, UsersInvariant, PTL DEF Spec, OwnersOnly


(***************************************************************************)
(* The two tables implement one directory.                                 *)
(***************************************************************************)

(* Accounts of different users differ. *)
LEMMA AccountsDiffer ==
    ASSUME NEW u, NEW v, AccountOf(u) = AccountOf(v)
    PROVE  u = v
<1>1. AccountOf(u).id = u /\ AccountOf(v).id = v
  BY DEF AccountOf
<1> QED BY <1>1

(* Whose account is shown is there, and live. *)
LEMMA ShownAreLive ==
    ASSUME TablesInv, NEW u \in User
    PROVE  /\ Exists(u) => account[u] \in Row /\ AccountOf(u) \in Directory!Account
           /\ preference[u] = "live" => u \in Shown
<1>1. account[u] \in Row \cup {None} /\ preference[u] \in PreferenceRow
  BY DEF TablesInv, TypeOK
<1>2. Exists(u) => account[u] \in Row
  BY <1>1 DEF Exists
<1>3. account[u] \in Row => AccountOf(u) \in Directory!Account
  BY DEF Row, AccountOf, Directory!Account
<1>4. preference[u] = "live" => Live(u)
  BY DEF TablesInv, DeletedInOrder, Live, Deleted
<1> QED BY <1>2, <1>3, <1>4 DEF Shown

(* Which e-mails and ids the directory has. *)
LEMMA DirectoryHas ==
    /\ \A email : Directory!InUse(email) <=> \E v \in Shown : account[v].email = email
    /\ \A id : Directory!HasAccount(id) <=> id \in Shown
<1>1. \A v : AccountOf(v).email = account[v].email /\ AccountOf(v).id = v
  BY DEF AccountOf
<1> QED BY <1>1 DEF Directory!InUse, Directory!HasAccount

(* A step that inserts a preference opens an account, one that deletes it closes
   the account, one that writes a user who is shown alters it; no other step
   is seen.                                                                *)
LEMMA DirectoryStep ==
    ASSUME TablesInv, EmailsAreUnique, [Next]_vars
    PROVE  [Directory!Next]_Directory!vars
<1> DEFINE accounts == {AccountOf(u) : u \in Shown}
           closed == {u \in User : preference[u] = "deleted"}
           barred == {u \in User : Deleted(u)}
<1>1. ASSUME Shown' = Shown, \A u \in Shown : AccountOf(u)' = AccountOf(u),
             closed' = closed, barred' = barred
      PROVE  UNCHANGED Directory!vars
  BY <1>1 DEF Directory!vars
<1>2. CASE UNCHANGED <<account, preference>>
  <2>1. /\ Shown' = Shown /\ closed' = closed /\ barred' = barred
        /\ \A u \in Shown : AccountOf(u)' = AccountOf(u)
    BY <1>2 DEF Shown, Live, Deleted, Exists, AccountOf
  <2> QED BY <1>1, <2>1
<1>3. ASSUME NEW u \in User, NEW row \in Row, WritesRow(u, row)
      PROVE  [Directory!Next]_Directory!vars
  <2>1. /\ account'[u] = row /\ row # None /\ preference' = preference
        /\ \A v \in User : v # u => account'[v] = account[v]
    BY <1>3, UserAssumption DEF WritesRow, TablesInv, TypeOK
  <2>2. closed' = closed
    BY <2>1
  <2>3. \A v \in User : v # u => (v \in Shown' <=> v \in Shown) /\ AccountOf(v)' = AccountOf(v)
    BY <2>1 DEF Shown, Live, Exists, AccountOf
  <2>4. CASE u \notin Shown /\ u \notin Shown'
    <3>1. Shown' = Shown /\ \A v \in Shown : AccountOf(v)' = AccountOf(v)
      BY <2>3, <2>4 DEF Shown
    <3>2. CASE Deleted(u)' = Deleted(u)
      <4>1. barred' = barred
        BY <2>1, <3>2 DEF Deleted, Exists
      <4> QED BY <1>1, <2>2, <3>1, <4>1
    <3>3. CASE Deleted(u)' # Deleted(u)
      <4>1. u \in closed /\ Deleted(u)'
        BY <1>3, <2>1, <3>3 DEF WritesRow, Inserts, Updates, Buries, Deleted, Exists
      <4>2. barred' = barred \cup {u}
        BY <2>1, <4>1 DEF Deleted, Exists
      <4>3. accounts' = accounts
        BY <3>1
      <4> QED BY <2>2, <4>1, <4>2, <4>3 DEF Directory!Bar, Directory!Next
    <3> QED BY <3>2, <3>3
  <2>5. CASE u \in Shown \/ u \in Shown'
    <3>1. preference[u] = "live"
      BY <2>1, <2>5 DEF Shown
    <3>2. Updates(u, row)
      BY <1>3, <3>1 DEF WritesRow, Inserts, Buries
    <3>3. u \in Shown /\ Exists(u)
      BY <3>1, ShownAreLive DEF Shown, Live
    <3>4. u \in Shown'
      BY <2>1, <3>2, <3>3 DEF Updates, Shown, Live, Exists
    <3> DEFINE a == AccountOf(u)
               b == [id |-> u, email |-> row.email, password |-> row.password]
    <3>5. /\ a.id = u /\ a.email = account[u].email /\ b.id = u /\ b.email = row.email
          /\ b \in Directory!Account /\ AccountOf(u)' = b
      BY <2>1 DEF AccountOf, Row, Directory!Account
    <3> HIDE DEF a, b
    <3>6. b.email = a.email \/ ~Directory!InUse(b.email)
      BY <3>2, <3>5, DirectoryHas DEF Updates, Taken, Shown, Live
    <3>7. accounts' = (accounts \ {a}) \cup {b}
      <4>1. Shown' = Shown
        BY <2>3, <3>3, <3>4 DEF Shown
      <4>2. \A v \in Shown : v # u => AccountOf(v)' = AccountOf(v) /\ AccountOf(v) # a
        BY <2>3, AccountsDiffer DEF Shown, a
      <4> QED BY <3>3, <3>5, <4>1, <4>2 DEF a
    <3>8. barred' = barred
      BY <2>1, <3>2 DEF Updates, Deleted, Exists
    <3>9. Directory!Alter(a, b)
      BY <2>2, <3>5, <3>6, <3>7, <3>8 DEF Directory!Alter
    <3>10. a \in accounts
      BY <3>3 DEF a
    <3> QED BY <3>5, <3>9, <3>10 DEF Directory!Next
  <2> QED BY <2>4, <2>5
<1>4. ASSUME NEW u \in User, WritesPreference(u)
      PROVE  [Directory!Next]_Directory!vars
  <2> DEFINE a == AccountOf(u)
  <2>1. /\ Exists(u) /\ a \in Directory!Account /\ a.id = u /\ a.email = account[u].email
        /\ account' = account /\ \A v : AccountOf(v)' = AccountOf(v) /\ Live(v)' = Live(v)
        /\ barred' = barred
        /\ \A v \in User : v # u => preference'[v] = preference[v]
    BY <1>4, ShownAreLive DEF WritesPreference, TablesInv, TypeOK, AccountOf, Live, Deleted, Exists
  <2>2. \A v \in User : v # u => (v \in Shown' <=> v \in Shown)
    BY <2>1 DEF Shown
  <2>3. CASE Live(u) /\ preference[u] = "none" /\ preference' = [preference EXCEPT ![u] = "live"]
    <3>1. preference'[u] = "live" /\ u \notin Shown
      BY <2>3 DEF Shown, TablesInv, TypeOK
    <3>2. closed' = closed /\ u \notin closed
      BY <2>1, <2>3, <3>1
    <3>3. Shown' = Shown \cup {u}
      BY <2>1, <2>2, <2>3, <3>1 DEF Shown
    <3>4. ~Directory!HasAccount(a.id)
      BY <2>1, <3>1, DirectoryHas
    <3>5. ~Directory!InUse(a.email)
      BY <2>1, <3>1, DirectoryHas DEF EmailsAreUnique, Shown, Live
    <3>6. accounts' = accounts \cup {a}
      BY <2>1, <3>3
    <3> HIDE DEF a
    <3> QED BY <2>1, <3>2, <3>4, <3>5, <3>6 DEF Directory!Open, Directory!Next
  <2>4. CASE preference[u] # "none" /\ preference' = [preference EXCEPT ![u] = "deleted"]
    <3>1. preference'[u] = "deleted" /\ preference[u] \in {"live", "deleted"}
      BY <2>4 DEF TablesInv, TypeOK, PreferenceRow
    <3>2. CASE preference[u] = "deleted"
      <4>1. preference' = preference
        BY <2>4, <3>2 DEF TablesInv, TypeOK
      <4> QED BY <1>2, <2>1, <4>1
    <3>3. CASE preference[u] = "live"
      <4>1. u \in Shown /\ u \notin Shown'
        BY <3>1, <3>3, ShownAreLive DEF Shown
      <4>2. Shown' = Shown \ {u}
        BY <2>2, <4>1 DEF Shown
      <4>3. closed' = closed \cup {u}
        BY <2>1, <3>1
      <4>4. accounts' = accounts \ {a}
        BY <2>1, <4>1, <4>2, AccountsDiffer
      <4>5. a \in accounts
        BY <4>1
      <4> HIDE DEF a
      <4> QED BY <2>1, <4>3, <4>4, <4>5 DEF Directory!Close, Directory!Next
    <3> QED BY <3>1, <3>2, <3>3
  <2> QED BY <1>4, <2>3, <2>4 DEF WritesPreference
<1>5. UNCHANGED vars => UNCHANGED <<account, preference>>
  BY DEF vars
<1> QED BY <1>2, <1>3, <1>4, <1>5, StepsOfTables

(* The use cases implement a directory that is written atomically, although they
   write users and preferences query by query, interleave and fail.        *)
THEOREM TablesImplementDirectory == Spec => DirectorySpec
<1>1. Init => Directory!Init
  <2> SUFFICES ASSUME Init PROVE Directory!Init
    OBVIOUS
  <2>1. PICK u \in User, e \in Email, w \in Password :
            /\ account = [v \in User |-> IF v = u THEN NewRow(e, w) ELSE None]
            /\ preference = [v \in User |-> IF v = u THEN "live" ELSE "none"]
    BY DEF Init
  <2>2. TablesInv
    BY InitHasInv
  <2>3. \A v \in User : v \in Shown <=> v = u
    BY <2>1, <2>2, ShownAreLive DEF Shown
  <2>4. AccountOf(u) \in Directory!Account
    BY <2>2, <2>3, ShownAreLive DEF Shown, Live
  <2>5. {AccountOf(v) : v \in Shown} = {AccountOf(u)}
    BY <2>3 DEF Shown
  <2>6. {v \in User : preference[v] = "deleted"} = {} /\ {v \in User : Deleted(v)} = {}
    BY <2>1, <2>2 DEF TablesInv, DeletedInOrder, Deleted
  <2> QED BY <2>4, <2>5, <2>6 DEF Directory!Init
<1>2. TablesInv /\ EmailsAreUnique /\ [Next]_vars => [Directory!Next]_Directory!vars
  BY DirectoryStep
<1>3. UsersInv => TablesInv /\ EmailsAreUnique
  BY DEF UsersInv
<1> QED BY <1>1, <1>2, <1>3, UsersInvariant, PTL DEF Spec, DirectorySpec, Directory!Spec
=============================================================================
