---------------------------- MODULE UsersProofs ----------------------------
(***************************************************************************)
(* Proofs about Users: the inductive invariant TablesInv, and from it that  *)
(* user and preference live and die together and that deleting is for      *)
(* good, for any users, e-mails, changes, requests and number of faults.   *)
(***************************************************************************)
EXTENDS Users, FiniteSetTheorems, TLAPS

USE DEF SomeoneAt

(* What a step of p leaves of the other requests: all but the note that it raced. *)
OthersStay(p) ==
    \A q \in Proc : q # p =>
        /\ op'[q].kind = op[q].kind
        /\ op'[q].target = op[q].target
        /\ op'[q].email = op[q].email
        /\ op'[q].password = op[q].password
        /\ op'[q].seen = op[q].seen
        /\ op'[q].step = op[q].step

(* What p asked for and for whom. *)
SameRequest(p) ==
    /\ op'[p].kind = op[p].kind
    /\ op'[p].target = op[p].target
    /\ op'[p].email = op[p].email
    /\ op'[p].password = op[p].password

(* Nothing of the two tables and what was issued and listed changes. *)
TablesStay == UNCHANGED <<account, preference, tokens, listed>>

(* Going to another step changes nothing but the step. *)
LEMMA GotoMoves ==
    ASSUME TypeOK, NEW p \in Proc, NEW step \in Steps, Goto(p, step)
    PROVE  /\ op' \in [Proc -> Request]
           /\ OthersStay(p)
           /\ SameRequest(p)
           /\ op'[p].step = step
           /\ op'[p].seen = op[p].seen
<1> DEFINE r == [op[p] EXCEPT !.step = step]
<1>1. op[p] \in Request
  BY DEF TypeOK
<1>2. r \in Request
  BY <1>1 DEF Request
<1>3. op' = [op EXCEPT ![p] = r]
  BY DEF Goto, TypeOK
<1>4. /\ r.kind = op[p].kind /\ r.target = op[p].target /\ r.email = op[p].email
      /\ r.password = op[p].password /\ r.seen = op[p].seen /\ r.step = step
  BY <1>1 DEF Request
<1> HIDE DEF r
<1>5. op' \in [Proc -> Request] /\ op'[p] = r /\ \A q \in Proc : q # p => op'[q] = op[q]
  BY <1>2, <1>3 DEF TypeOK
<1> QED
  BY <1>4, <1>5 DEF OthersStay, SameRequest

(* An answer ends the request. *)
LEMMA AnswerMoves ==
    ASSUME TypeOK, NEW p \in Proc, NEW answer \in Answers, Answer(p, answer)
    PROVE  /\ op' \in [Proc -> Request]
           /\ OthersStay(p)
           /\ SameRequest(p)
           /\ op'[p].step = "return"
<1> DEFINE r == [op[p] EXCEPT !.step = "return", !.answer = answer, !.agent = None, !.seen = None]
<1>1. op[p] \in Request
  BY DEF TypeOK
<1>2. r \in Request
  BY <1>1 DEF Request, Steps
<1>3. op' = [op EXCEPT ![p] = r]
  BY DEF Answer, TypeOK
<1>4. /\ r.kind = op[p].kind /\ r.target = op[p].target /\ r.email = op[p].email
      /\ r.password = op[p].password /\ r.step = "return"
  BY <1>1 DEF Request
<1> HIDE DEF r
<1>5. op' \in [Proc -> Request] /\ op'[p] = r /\ \A q \in Proc : q # p => op'[q] = op[q]
  BY <1>2, <1>3 DEF TypeOK
<1> QED
  BY <1>4, <1>5 DEF OthersStay, SameRequest

(***************************************************************************)
(* A step that only moves p on keeps the invariant, provided that p fits   *)
(* its new step and leaves nothing half done, unless something failed.     *)
(***************************************************************************)
LEMMA MovingKeepsInv ==
    ASSUME TablesInv, NEW p \in Proc,
           op' \in [Proc -> Request], OthersStay(p), TablesStay,
           requests' \in 0..MaxRequests, faults' \in 0..MaxFaults,
           Fits(op'[p]), op'[p].step # "insertPreference",
           faults' = 0 => faults = 0 /\ op[p].step \notin {"insertPreference", "markUser", "deleteUser"}
    PROVE  TablesInv'
<1> USE DEF TablesInv, TablesStay
<1>1. TypeOK'
  BY DEF TypeOK
<1>2. DeletedInOrder'
  BY DEF DeletedInOrder, Exists, Deleted
<1>3. StepsFit'
  BY DEF StepsFit, Fits, Exists, OthersStay
<1>4. OneCreator'
  BY DEF OneCreator, OthersStay
<1>5. HalvesAreContinued'
  <2> SUFFICES ASSUME faults' = 0, NEW u \in User, Exists(u)
               PROVE  Continued(u)'
    BY DEF HalvesAreContinued, Exists
  <2>1. ASSUME NEW step \in {"insertPreference", "markUser", "deleteUser"}, SomeoneAt(step, u)
        PROVE  SomeoneAt(step, u)'
    BY <2>1 DEF OthersStay
  <2> QED
    BY <2>1 DEF HalvesAreContinued, Continued
<1> QED
  BY <1>1, <1>2, <1>3, <1>4, <1>5

(***************************************************************************)
(* Steps of a request that leave the tables alone.                         *)
(***************************************************************************)
LEMMA BeginKeepsInv ==
    ASSUME TablesInv, NEW p \in Proc, NEW request \in Request, Begin(p, request),
           request.step \in {"check", "reread", "loadUser", "find"},
           request.step = "check" =>
               request.kind = "create" /\ request.email # None /\ request.password # None
    PROVE  TablesInv'
<1> DEFINE Raced(q) == [op[q] EXCEPT !.raced = @ \/ Meets(op[q], request)]
           New == [request EXCEPT !.raced = \E o \in Proc : Meets(request, op[o])]
<1>1. op' = [q \in Proc |-> IF q = p THEN New ELSE Raced(q)]
  BY DEF Begin
<1>2. New \in Request /\ New.step = request.step /\ New.kind = request.kind
      /\ New.email = request.email /\ New.password = request.password
  BY DEF Request
<1>3. ASSUME NEW q \in Proc
      PROVE  /\ Raced(q) \in Request
             /\ Raced(q).kind = op[q].kind /\ Raced(q).target = op[q].target
             /\ Raced(q).email = op[q].email /\ Raced(q).password = op[q].password
             /\ Raced(q).seen = op[q].seen /\ Raced(q).step = op[q].step
  <2>1. op[q] \in Request
    BY DEF TablesInv, TypeOK
  <2>2. (op[q].raced \/ Meets(op[q], request)) \in BOOLEAN
    OBVIOUS
  <2> QED
    BY <2>1, <2>2, ZenonT(60) DEF Request
<1> HIDE DEF New, Raced
<1>4. op' \in [Proc -> Request] /\ op'[p] = New /\ OthersStay(p)
  BY <1>1, <1>2, <1>3 DEF OthersStay
<1>5. Fits(op'[p])
  BY <1>2, <1>4 DEF Fits, Writing, Deleting
<1>6. op[p].step = "idle"
  BY DEF Begin, Idle
<1>7. requests' \in 0..MaxRequests /\ faults' = faults /\ TablesStay
  BY UserAssumption DEF Begin, TablesStay, TablesInv, TypeOK
<1> QED
  BY <1>2, <1>4, <1>5, <1>6, <1>7, MovingKeepsInv DEF TablesInv, TypeOK

(* To answer, or to throw, is always fine: unless something failed, p was not
   in the middle of a creation or a deletion.                              *)
LEMMA AnsweringKeepsInv ==
    ASSUME TablesInv, NEW p \in Proc, NEW answer \in Answers, Answer(p, answer), TablesStay,
           requests' = requests, faults' \in 0..MaxFaults,
           faults' = 0 => faults = 0 /\ op[p].step \notin {"insertPreference", "markUser", "deleteUser"}
    PROVE  TablesInv'
  BY AnswerMoves, MovingKeepsInv DEF TablesInv, TypeOK, Fits, Writing, Deleting

(* To go on is fine where the next step fits. *)
LEMMA GoingKeepsInv ==
    ASSUME TablesInv, NEW p \in Proc, NEW step \in Steps \ {"insertPreference"}, Goto(p, step), TablesStay,
           requests' = requests, faults' = faults,
           op[p].step \notin {"insertPreference", "markUser", "deleteUser"},
           \A r \in Request :
               (/\ r.step = step /\ r.kind = op[p].kind /\ r.target = op[p].target
                /\ r.email = op[p].email /\ r.password = op[p].password) => Fits(r)
    PROVE  TablesInv'
<1>1. /\ op' \in [Proc -> Request] /\ OthersStay(p) /\ SameRequest(p) /\ op'[p].step = step
  BY GotoMoves DEF TablesInv
<1>2. Fits(op'[p])
  BY <1>1 DEF SameRequest
<1> QED
  BY <1>1, <1>2, MovingKeepsInv DEF TablesInv, TypeOK
(* To replace the request is fine where the new one fits. *)
LEMMA ReplacingKeepsInv ==
    ASSUME TablesInv, NEW p \in Proc, NEW r \in Request, op' = [op EXCEPT ![p] = r], Fits(r),
           TablesStay, requests' = requests, faults' = faults, r.step # "insertPreference",
           op[p].step \notin {"insertPreference", "markUser", "deleteUser"}
    PROVE  TablesInv'
<1>1. op' \in [Proc -> Request] /\ op'[p] = r /\ OthersStay(p)
  BY DEF TablesInv, TypeOK, OthersStay
<1> QED
  BY <1>1, MovingKeepsInv DEF TablesInv, TypeOK

(***************************************************************************)
(* Steps of a request that write.                                          *)
(***************************************************************************)

(* The user is inserted into a row nobody had, and has no preference yet. *)
LEMMA InsertKeepsInv ==
    ASSUME TablesInv, NEW p \in Proc, NEW u \in User, ~Exists(u), At(p, "insert"),
           account' = [account EXCEPT ![u] = NewRow(op[p].email, op[p].password)],
           op' = [op EXCEPT ![p].step = "insertPreference", ![p].target = u],
           UNCHANGED <<preference, tokens, listed, requests, faults>>
    PROVE  TablesInv'
<1> DEFINE r == [op[p] EXCEPT !.step = "insertPreference", !.target = u]
           row == NewRow(op[p].email, op[p].password)
<1>1. op[p] \in Request /\ op[p].step = "insert"
  BY DEF TablesInv, TypeOK, At
<1>2. /\ r \in Request /\ r.kind = op[p].kind /\ r.email = op[p].email
      /\ r.password = op[p].password /\ r.step = "insertPreference" /\ r.target = u
  BY <1>1 DEF Request, Steps
<1>3. op[p].kind = "create" /\ op[p].email \in Email /\ op[p].password \in Password
  <2>1. op[p].kind = "create" /\ op[p].email # None /\ op[p].password # None
    BY <1>1 DEF TablesInv, StepsFit, Fits
  <2> QED
    BY <1>1, <2>1 DEF Request
<1>4. row \in Row /\ ~row.marked /\ ~row.deleted /\ row # None
  <2>1. row \in Row /\ row.marked = FALSE /\ row.deleted = FALSE
    BY <1>3 DEF Row, NewRow
  <2> HIDE DEF row
  <2>2. row # None
    BY <2>1, UserAssumption
  <2> QED
    BY <2>1, <2>2
<1>5. op' = [op EXCEPT ![p] = r]
  BY DEF TablesInv, TypeOK
<1> HIDE DEF r, row
<1>6. op' \in [Proc -> Request] /\ op'[p] = r /\ \A q \in Proc : q # p => op'[q] = op[q]
  BY <1>2, <1>5, ZenonT(60) DEF TablesInv, TypeOK
<1>7. /\ account' \in [User -> Row \cup {None}] /\ account'[u] = row
      /\ \A v \in User : v # u => account'[v] = account[v]
  BY <1>4 DEF TablesInv, TypeOK, row
<1>8. preference[u] = "none" /\ account[u] = None /\ u # None
  BY UserAssumption DEF TablesInv, DeletedInOrder, Exists
<1>9. TypeOK'
  BY <1>6, <1>7 DEF TablesInv, TypeOK
<1>10. DeletedInOrder'
  BY <1>4, <1>7, <1>8 DEF TablesInv, DeletedInOrder, Exists, Deleted
<1>11. StepsFit'
  <2>1. Fits(op[p])'
    BY <1>2, <1>3, <1>4, <1>6, <1>7, <1>8 DEF Fits, Exists, Writing, Deleting
  <2>2. ASSUME NEW q \in Proc, q # p
        PROVE  Fits(op[q])'
    <3>1. op[q]' = op[q] /\ Fits(op[q]) /\ op[q].target \in User \cup {None}
      BY <1>6, <2>2 DEF TablesInv, StepsFit, TypeOK, Request
    <3>2. Exists(op[q].target) => op[q].target # u /\ account'[op[q].target] = account[op[q].target]
      BY <1>7, <1>8, <3>1 DEF Exists
    <3> QED
      BY <3>1, <3>2 DEF Fits, Exists, Writing, Deleting
  <2> QED
    BY <2>1, <2>2 DEF StepsFit
<1>12. OneCreator'
  <2>1. ASSUME NEW q \in Proc, q # p, op[q].step = "insertPreference"
        PROVE  op[q].target # u
    BY <1>8, <2>1 DEF TablesInv, StepsFit, Fits, Exists
  <2> QED
    BY <1>2, <1>6, <2>1 DEF TablesInv, OneCreator
<1>13. HalvesAreContinued'
  <2> SUFFICES ASSUME faults' = 0, NEW v \in User, Exists(v)'
               PROVE  Continued(v)'
    BY DEF HalvesAreContinued
  <2>1. CASE v = u
    BY <1>2, <1>4, <1>6, <1>7, <1>8, <2>1 DEF Continued
  <2>2. CASE v # u
    <3>1. account'[v] = account[v] /\ preference'[v] = preference[v] /\ Exists(v) /\ faults = 0
      BY <1>7, <2>2 DEF Exists
    <3>2. ASSUME NEW step \in {"insertPreference", "markUser", "deleteUser"}, SomeoneAt(step, v)
          PROVE  SomeoneAt(step, v)'
      BY <1>1, <1>6, <3>2
    <3> QED
      BY <3>1, <3>2 DEF TablesInv, HalvesAreContinued, Continued
  <2> QED
    BY <2>1, <2>2
<1> QED
  BY <1>9, <1>10, <1>11, <1>12, <1>13 DEF TablesInv
(* A write to the rows of p's target: p fits its next step, and leaves nothing
   half done unless something failed.                                      *)
LEMMA WritingKeepsInv ==
    ASSUME TablesInv, NEW p \in Proc, NEW t \in User, t = op[p].target,
           op' \in [Proc -> Request], OthersStay(p), op'[p].step # "insertPreference", Fits(op[p])',
           account' \in [User -> Row \cup {None}], preference' \in [User -> PreferenceRow],
           UNCHANGED <<tokens, listed, requests, faults>>,
           \A u \in User : u # t => account'[u] = account[u] /\ preference'[u] = preference[u],
           account[t] # None, account'[t] # None,
           account[t].marked => account'[t].marked,
           account'[t].deleted => account'[t].marked,
           account'[t].marked => preference'[t] = "deleted",
           preference[t] = "deleted" => preference'[t] = "deleted",
           preference[t] = "none" => op[p].step = "insertPreference",
           preference'[t] # "none",
           faults = 0 => Continued(t)'
    PROVE  TablesInv'
<1>1. TypeOK'
  BY DEF TablesInv, TypeOK
<1>2. DeletedInOrder'
  BY UserAssumption DEF TablesInv, DeletedInOrder, Exists, Deleted
<1>3. StepsFit'
  <2>1. ASSUME NEW q \in Proc, q # p
        PROVE  Fits(op[q])'
    <3>1. /\ op'[q].kind = op[q].kind /\ op'[q].target = op[q].target
          /\ op'[q].email = op[q].email /\ op'[q].password = op[q].password
          /\ op'[q].seen = op[q].seen /\ op'[q].step = op[q].step
      BY <2>1 DEF OthersStay
    <3>2. Fits(op[q]) /\ op[q].target \in User \cup {None}
      BY DEF TablesInv, StepsFit, TypeOK, Request
    <3>3. op[q].step = "insertPreference" => op[q].target # t
      <4>1. op[q].step = "insertPreference" /\ op[q].target = t => preference[t] = "none"
        BY <3>2 DEF Fits
      <4> QED
        BY <2>1, <4>1 DEF TablesInv, OneCreator
    <3>4. CASE op[q].target = t
      BY <3>1, <3>2, <3>3, <3>4 DEF Fits, Exists, Writing, Deleting
    <3>5. CASE op[q].target # t
      <4>1. Exists(op[q].target) => account'[op[q].target] = account[op[q].target]
                                    /\ preference'[op[q].target] = preference[op[q].target]
        BY <3>2, <3>5 DEF Exists
      <4> QED
        BY <3>1, <3>2, <4>1 DEF Fits, Exists, Writing, Deleting
    <3> QED
      BY <3>4, <3>5
  <2> QED
    BY <2>1 DEF StepsFit
<1>4. OneCreator'
  BY DEF TablesInv, OneCreator, OthersStay
<1>5. HalvesAreContinued'
  <2> SUFFICES ASSUME faults' = 0, NEW u \in User, Exists(u)'
               PROVE  Continued(u)'
    BY DEF HalvesAreContinued
  <2>1. CASE u = t
    BY <2>1
  <2>2. CASE u # t
    <3>1. /\ account'[u] = account[u] /\ preference'[u] = preference[u]
          /\ Exists(u) /\ faults = 0
      BY <2>2 DEF Exists
    <3>2. ASSUME NEW step \in {"insertPreference", "markUser", "deleteUser"}, SomeoneAt(step, u)
          PROVE  SomeoneAt(step, u)'
      <4>1. PICK q \in Proc : op[q].step = step /\ op[q].target = u
        BY <3>2
      <4>2. q # p
        BY <2>2, <4>1
      <4> QED
        BY <4>1, <4>2 DEF OthersStay
    <3> QED
      BY <3>1, <3>2 DEF TablesInv, HalvesAreContinued, Continued
  <2> QED
    BY <2>1, <2>2
<1> QED
  BY <1>1, <1>2, <1>3, <1>4, <1>5 DEF TablesInv

(***************************************************************************)
(* The actions.                                                            *)
(***************************************************************************)
LEMMA StartKeepsInv ==
    ASSUME TablesInv, NEW p \in Proc, Start(p)
    PROVE  TablesInv'
<1> USE DEF TablesInv, TypeOK, Request, Idle, Kinds, Steps, Answers
<1>0. Idle \in Request
  OBVIOUS
<1>1. ASSUME NEW e \in Email, NEW w \in Password, Login(p, e, w)
      PROVE  TablesInv'
  BY <1>1, BeginKeepsInv DEF Login
<1>2. ASSUME NEW e \in Email, NEW w \in Password, Create(p, e, w)
      PROVE  TablesInv'
  BY <1>2, BeginKeepsInv, UserAssumption DEF Create
<1>3. ASSUME NEW u \in User, Get(p, u)
      PROVE  TablesInv'
  BY <1>3, BeginKeepsInv DEF Get
<1>4. ASSUME NEW agent \in tokens, NEW u \in User, Delete(p, agent, u)
      PROVE  TablesInv'
  BY <1>4, BeginKeepsInv DEF Delete
<1>5. ASSUME NEW agent \in tokens, NEW u \in User, NEW change \in Change, Update(p, agent, u, change)
      PROVE  TablesInv'
  <2>1. change \in [email : Email \cup {None}, password : Password \cup {None}, prefers : BOOLEAN]
    BY UserAssumption
  <2> QED
    BY <1>5, <2>1, BeginKeepsInv, ZenonT(60) DEF Update
<1> QED
  BY <1>1, <1>2, <1>3, <1>4, <1>5 DEF Start

(* Steps that answer, or go on without having written. *)
LEMMA ReadingKeepsInv ==
    ASSUME TablesInv, NEW p \in Proc,
           \/ CheckEmail(p) \/ RecheckEmail(p) \/ Reread(p) \/ LoadUser(p) \/ LoadPreference(p)
           \/ CheckUser(p) \/ WritePreference(p) \/ CheckPreference(p)
           \/ FindUser(p) \/ LoadWithPassword(p) \/ Return(p)
    PROVE  TablesInv'
<1>1. TypeOK /\ Fits(op[p]) /\ op[p] \in Request /\ faults \in 0..MaxFaults
  BY DEF TablesInv, StepsFit, TypeOK
<1> USE <1>1 DEF TablesStay, At, Steps, Answers, Fits, Writing, Deleting
<1>2. CASE CheckEmail(p)
  BY <1>2, AnsweringKeepsInv, GoingKeepsInv DEF CheckEmail
<1>3. CASE RecheckEmail(p)
  BY <1>3, AnsweringKeepsInv, GoingKeepsInv DEF RecheckEmail
<1>4. CASE Reread(p)
  BY <1>4, AnsweringKeepsInv DEF Reread
<1>5. CASE CheckUser(p)
  BY <1>5, AnsweringKeepsInv, GoingKeepsInv DEF CheckUser
<1>6. CASE WritePreference(p)
  BY <1>6, GoingKeepsInv DEF WritePreference
<1>7. CASE CheckPreference(p)
  BY <1>7, AnsweringKeepsInv, GoingKeepsInv DEF CheckPreference
<1>8. CASE LoadPreference(p)
  BY <1>8, AnsweringKeepsInv, GoingKeepsInv DEF LoadPreference, Request, Kinds
<1>9. CASE LoadUser(p)
  <2>1. CASE ~Live(op[p].target)
    BY <1>9, <2>1, AnsweringKeepsInv DEF LoadUser
  <2>2. CASE Live(op[p].target)
    <3> DEFINE email == account[op[p].target].email
               r == [op[p] EXCEPT !.step = "loadPreference", !.seen = email]
    <3>1. email \in Email
      BY <2>2 DEF Live, Exists, TypeOK, Request, Row
    <3>2. r \in Request /\ r.step = "loadPreference" /\ r.target = op[p].target
      BY <3>1, ZenonT(60) DEF Request
    <3>3. op' = [op EXCEPT ![p] = r]
      BY <1>9, <2>2 DEF LoadUser, TypeOK
    <3> HIDE DEF r
    <3> QED
      BY <1>9, <2>2, <3>2, <3>3, ReplacingKeepsInv DEF LoadUser, Live
  <2> QED
    BY <2>1, <2>2
<1>10. CASE FindUser(p)
  <2>1. CASE LiveWith(op[p].email) = {} /\ Answer(p, "unauthorized")
    BY <1>10, <2>1, AnsweringKeepsInv DEF FindUser
  <2>2. ASSUME NEW u \in LiveWith(op[p].email),
               op' = [op EXCEPT ![p].step = "load", ![p].target = u]
        PROVE  TablesInv'
    <3> DEFINE r == [op[p] EXCEPT !.step = "load", !.target = u]
    <3>1. u \in User
      BY <2>2 DEF LiveWith
    <3>2. r \in Request /\ r.step = "load"
      BY <3>1, ZenonT(60) DEF Request
    <3>3. op' = [op EXCEPT ![p] = r]
      BY <2>2 DEF TypeOK
    <3> HIDE DEF r
    <3> QED
      BY <1>10, <3>2, <3>3, ReplacingKeepsInv DEF FindUser
  <2> QED
    BY <1>10, <2>1, <2>2 DEF FindUser
<1>11. CASE LoadWithPassword(p)
  <2> DEFINE found == Live(op[p].target) /\ account[op[p].target].password = op[p].password
  <2>1. CASE ~found
    BY <1>11, <2>1, AnsweringKeepsInv DEF LoadWithPassword, validatePassword
  <2>2. CASE found
    <3> DEFINE email == account[op[p].target].email
               r == [op[p] EXCEPT !.step = "issue", !.seen = email]
    <3>1. email \in Email
      BY <2>2 DEF Live, Exists, TypeOK, Request, Row
    <3>2. r \in Request /\ r.step = "issue" /\ r.target = op[p].target /\ r.seen # None
      BY <3>1, UserAssumption, ZenonT(60) DEF Request
    <3>3. op' = [op EXCEPT ![p] = r]
      BY <1>11, <2>2 DEF LoadWithPassword, validatePassword, TypeOK
    <3> HIDE DEF r
    <3> QED
      BY <1>11, <2>2, <3>2, <3>3, ReplacingKeepsInv DEF LoadWithPassword, validatePassword, Live
  <2> QED
    BY <2>1, <2>2
<1>12. CASE Return(p)
  <2>1. Idle \in Request /\ Idle.step = "idle"
    BY DEF Idle, Request, Kinds
  <2> QED
    BY <1>12, <2>1, ReplacingKeepsInv DEF Return
<1> QED
  BY <1>2, <1>3, <1>4, <1>5, <1>6, <1>7, <1>8, <1>9, <1>10, <1>11, <1>12
(* What WritingKeepsInv asks of the target of a step that writes. *)
LEMMA TargetIsThere ==
    ASSUME TablesInv, NEW p \in Proc, op[p].step \in {"insertPreference"} \cup Writing \cup Deleting
    PROVE  /\ op[p].target \in User /\ account[op[p].target] \in Row
           /\ account[op[p].target] # None
           /\ preference[op[p].target] \in PreferenceRow
           /\ account[op[p].target].deleted => account[op[p].target].marked
           /\ account[op[p].target].marked => preference[op[p].target] = "deleted"
           /\ preference[op[p].target] = "none" => op[p].step = "insertPreference"
           /\ Fits(op[p])
<1>1. Fits(op[p]) /\ op[p] \in Request
  BY DEF TablesInv, StepsFit, TypeOK
<1>2. Exists(op[p].target)
  BY <1>1 DEF Fits
<1>3. op[p].target \in User
  BY <1>1, <1>2 DEF Exists, Request
<1>4. account[op[p].target] \in Row /\ preference[op[p].target] \in PreferenceRow
  BY <1>2, <1>3 DEF Exists, TablesInv, TypeOK
<1> QED
  BY <1>1, <1>2, <1>3, <1>4 DEF TablesInv, DeletedInOrder, Deleted, Exists, Fits, Writing, Deleting

(* What is left of a row that is updated: it is as marked and as deleted as before. *)
LEMMA UpdatedRow ==
    ASSUME NEW row \in Row, NEW r \in Request
    PROVE  /\ Updated(row, r) \in Row
           /\ Updated(row, r).marked = row.marked
           /\ Updated(row, r).deleted = row.deleted
<1> DEFINE email == IF r.email = None THEN row.email ELSE r.email
           password == IF r.password = None THEN row.password ELSE r.password
<1>1. email \in Email /\ password \in Password
  BY DEF Row, Request
<1>2. Updated(row, r) = [row EXCEPT !.email = email, !.password = password]
  BY DEF Updated
<1> HIDE DEF email, password
<1> QED
  BY <1>1, <1>2 DEF Row

(* Steps that write to the target's rows. *)
LEMMA WritersKeepInv ==
    ASSUME TablesInv, NEW p \in Proc,
           \/ InsertPreference(p) \/ WriteUser(p)
           \/ DeletePreference(p) \/ MarkUser(p) \/ DeleteUser(p)
    PROVE  TablesInv'
<1>1. op[p].step \in {"insertPreference"} \cup Writing \cup Deleting
  BY DEF InsertPreference, WriteUser, DeletePreference, MarkUser, DeleteUser, At, Writing, Deleting
<1>0. PICK t \in User : t = op[p].target
  BY <1>1, TargetIsThere
<1>2. /\ t = op[p].target /\ t \in User /\ account[t] \in Row /\ account[t] # None
      /\ preference[t] \in PreferenceRow
      /\ account[t].deleted => account[t].marked
      /\ account[t].marked => preference[t] = "deleted"
      /\ preference[t] = "none" => op[p].step = "insertPreference"
      /\ Fits(op[p])
  BY <1>0, <1>1, TargetIsThere
<1>3. TypeOK /\ op[p] \in Request /\ \A row \in Row : row # None
  BY UserAssumption DEF TablesInv, TypeOK
<1>4. CASE InsertPreference(p)
  <2>1. /\ op' \in [Proc -> Request] /\ OthersStay(p) /\ SameRequest(p) /\ op'[p].step = "reread"
    BY <1>3, <1>4, GotoMoves DEF InsertPreference, Steps
  <2>2. preference' \in [User -> PreferenceRow] /\ preference'[t] = "live"
        /\ \A u \in User : u # t => preference'[u] = preference[u]
    BY <1>2, <1>3, <1>4 DEF InsertPreference, TypeOK, PreferenceRow
  <2>3. preference[t] = "none" /\ account' = account
    BY <1>2, <1>4 DEF InsertPreference, At, Fits
  <2>4. Fits(op[p])'
    BY <2>1 DEF Fits, Writing, Deleting
  <2>5. Continued(t)'
    BY <1>2, <2>1, <2>2, <2>3 DEF Continued, SameRequest
  <2> QED
    BY <1>2, <1>3, <1>4, <2>1, <2>2, <2>3, <2>4, <2>5, WritingKeepsInv DEF InsertPreference, TypeOK
<1>5. CASE WriteUser(p)
  <2> DEFINE row == Updated(account[op[p].target], op[p])
  <2>1. CASE Answer(p, "internal") /\ UNCHANGED account
    BY <1>3, <1>5, <2>1, AnsweringKeepsInv DEF WriteUser, At, TablesStay, Answers, TypeOK
  <2>2. CASE account' = [account EXCEPT ![op[p].target] = row] /\ Goto(p, "checkUser")
    <3>1. /\ op' \in [Proc -> Request] /\ OthersStay(p) /\ SameRequest(p) /\ op'[p].step = "checkUser"
      BY <1>3, <2>2, GotoMoves DEF Steps
    <3>2. row \in Row /\ row.marked = account[t].marked /\ row.deleted = account[t].deleted
      BY <1>2, <1>3, UpdatedRow
    <3> HIDE DEF row
    <3>3. /\ account' \in [User -> Row \cup {None}] /\ account'[t] = row /\ row # None
          /\ \A u \in User : u # t => account'[u] = account[u]
      BY <1>2, <1>3, <2>2, <3>2 DEF TypeOK
    <3>4. preference' = preference /\ preference[t] # "none" /\ op[p].step = "writeUser"
      BY <1>2, <1>5 DEF WriteUser, At
    <3>5. t # None
      BY <1>2, UserAssumption
    <3>6. Fits(op[p])'
      BY <1>0, <3>1, <3>3, <3>4, <3>5 DEF Fits, Writing, Deleting, Exists, SameRequest
    <3>7. faults = 0 => Continued(t)'
      <4>1. faults = 0 => Continued(t)
        BY <1>2, <3>5 DEF TablesInv, HalvesAreContinued, Exists
      <4>2. ASSUME NEW step \in {"insertPreference", "markUser", "deleteUser"}, SomeoneAt(step, t)
            PROVE  SomeoneAt(step, t)'
        BY <3>1, <3>4, <4>2 DEF OthersStay
      <4> QED
        BY <3>2, <3>3, <3>4, <4>1, <4>2 DEF Continued
    <3> QED
      BY <1>2, <1>3, <1>5, <3>1, <3>2, <3>3, <3>4, <3>6, <3>7, WritingKeepsInv DEF WriteUser, TypeOK, SameRequest
  <2> QED
    BY <1>5, <2>1, <2>2 DEF WriteUser
<1>6. CASE DeletePreference(p)
  <2>1. /\ op' \in [Proc -> Request] /\ OthersStay(p) /\ SameRequest(p) /\ op'[p].step = "markUser"
    BY <1>3, <1>6, GotoMoves DEF DeletePreference, Steps
  <2>2. preference' \in [User -> PreferenceRow] /\ preference'[t] = "deleted"
        /\ \A u \in User : u # t => preference'[u] = preference[u]
    BY <1>2, <1>3, <1>6 DEF DeletePreference, TypeOK, PreferenceRow
  <2>3. account' = account /\ op[p].kind = "delete" /\ op[p].step = "deletePreference" /\ t # None
    BY <1>2, <1>6, UserAssumption DEF DeletePreference, At, Fits, Deleting
  <2>4. Fits(op[p])'
    BY <1>2, <2>1, <2>2, <2>3 DEF Fits, Exists, Writing, Deleting, SameRequest
  <2>5. faults = 0 => Continued(t)'
    <3>1. faults = 0 => Continued(t)
      BY <1>2, <2>3 DEF TablesInv, HalvesAreContinued, Exists
    <3>2. SomeoneAt("deleteUser", t) => SomeoneAt("deleteUser", t)'
      BY <2>1, <2>3 DEF OthersStay
    <3> QED
      BY <1>0, <2>1, <2>2, <2>3, <3>1, <3>2 DEF Continued, SameRequest
  <2> QED
    BY <1>2, <1>3, <1>6, <2>1, <2>2, <2>3, <2>4, <2>5, WritingKeepsInv DEF DeletePreference, TypeOK
<1>7. CASE MarkUser(p)
  <2> DEFINE row == [account[t] EXCEPT !.marked = TRUE]
  <2>1. /\ op' \in [Proc -> Request] /\ OthersStay(p) /\ SameRequest(p) /\ op'[p].step = "deleteUser"
    BY <1>3, <1>7, GotoMoves DEF MarkUser, Steps
  <2>2. row \in Row /\ row.marked /\ row.deleted = account[t].deleted
    BY <1>2 DEF Row
  <2>3. account' = [account EXCEPT ![t] = row]
    BY <1>2, <1>3, <1>7 DEF MarkUser, TypeOK
  <2> HIDE DEF row
  <2>4. /\ account' \in [User -> Row \cup {None}] /\ account'[t] = row /\ row # None
        /\ \A u \in User : u # t => account'[u] = account[u]
    BY <1>2, <1>3, <2>2, <2>3 DEF TypeOK
  <2>5. preference' = preference /\ preference[t] = "deleted" /\ op[p].kind = "delete" /\ t # None
    BY <1>2, <1>7, UserAssumption DEF MarkUser, At, Fits, Deleting
  <2>6. Fits(op[p])'
    BY <1>0, <2>1, <2>2, <2>4, <2>5 DEF Fits, Exists, Writing, Deleting, SameRequest
  <2>7. Continued(t)'
    BY <1>0, <2>1, <2>2, <2>4, <2>5 DEF Continued, SameRequest
  <2> QED
    BY <1>2, <1>3, <1>7, <2>1, <2>2, <2>4, <2>5, <2>6, <2>7, WritingKeepsInv, ZenonT(60) DEF MarkUser, TypeOK
<1>8. CASE DeleteUser(p)
  <2> DEFINE row == [account[t] EXCEPT !.deleted = TRUE]
  <2>1. /\ op' \in [Proc -> Request] /\ OthersStay(p) /\ SameRequest(p) /\ op'[p].step = "return"
    BY <1>3, <1>8, AnswerMoves DEF DeleteUser, Answers
  <2>2. row \in Row /\ row.marked = account[t].marked /\ row.deleted
    BY <1>2 DEF Row
  <2>3. account' = [account EXCEPT ![t] = row]
    BY <1>2, <1>3, <1>8 DEF DeleteUser, TypeOK
  <2> HIDE DEF row
  <2>4. /\ account' \in [User -> Row \cup {None}] /\ account'[t] = row /\ row # None
        /\ \A u \in User : u # t => account'[u] = account[u]
    BY <1>2, <1>3, <2>2, <2>3 DEF TypeOK
  <2>5. preference' = preference /\ preference[t] = "deleted" /\ account[t].marked
    BY <1>2, <1>8 DEF DeleteUser, At, Fits, Deleting
  <2>6. Fits(op[p])'
    BY <2>1 DEF Fits, Writing, Deleting
  <2>7. Continued(t)'
    BY <2>2, <2>4, <2>5 DEF Continued
  <2> QED
    BY <1>2, <1>3, <1>8, <2>1, <2>2, <2>4, <2>5, <2>6, <2>7, WritingKeepsInv, ZenonT(60) DEF DeleteUser, TypeOK
<1> QED
  BY <1>4, <1>5, <1>6, <1>7, <1>8

LEMMA InsertsKeepInv ==
    ASSUME TablesInv, NEW p \in Proc, Insert(p)
    PROVE  TablesInv'
<1>1. CASE Taken(op[p].email) /\ Answer(p, "internal") /\ UNCHANGED account
  BY <1>1, AnsweringKeepsInv DEF Insert, At, Answers, TablesStay, TablesInv, TypeOK
<1>2. ASSUME NEW u \in {v \in User : ~Exists(v)},
             account' = [account EXCEPT ![u] = NewRow(op[p].email, op[p].password)],
             op' = [op EXCEPT ![p].step = "insertPreference", ![p].target = u]
      PROVE  TablesInv'
  BY <1>2, InsertKeepsInv DEF Insert
<1> QED
  BY <1>1, <1>2 DEF Insert

LEMMA IssueKeepsInv ==
    ASSUME TablesInv, NEW p \in Proc, IssueToken(p)
    PROVE  TablesInv'
<1> DEFINE t == [id |-> op[p].target, email |-> op[p].seen]
<1>1. Fits(op[p]) /\ op[p] \in Request /\ op[p].step = "issue"
  BY DEF TablesInv, StepsFit, TypeOK, IssueToken, At
<1>2. t \in Token
  BY <1>1 DEF Fits, Exists, Request, Token
<1>3. /\ op' \in [Proc -> Request] /\ OthersStay(p) /\ SameRequest(p) /\ op'[p].step = "return"
  BY AnswerMoves DEF IssueToken, Answers, TablesInv
<1>4. tokens' \subseteq Token
  BY <1>2 DEF IssueToken, TablesInv, TypeOK
<1>5. TypeOK'
  BY <1>3, <1>4 DEF IssueToken, TablesInv, TypeOK
<1>6. DeletedInOrder'
  BY DEF IssueToken, TablesInv, DeletedInOrder, Exists, Deleted
<1>7. StepsFit'
  BY <1>3 DEF IssueToken, TablesInv, StepsFit, Fits, Exists, OthersStay, Writing, Deleting
<1>8. OneCreator'
  BY <1>3 DEF TablesInv, OneCreator, OthersStay
<1>9. HalvesAreContinued'
  <2> SUFFICES ASSUME faults' = 0, NEW u \in User, Exists(u)'
               PROVE  Continued(u)'
    BY DEF HalvesAreContinued
  <2>1. Exists(u) /\ faults = 0 /\ preference' = preference /\ account' = account
    BY DEF Exists, IssueToken
  <2>2. ASSUME NEW step \in {"insertPreference", "markUser", "deleteUser"}, SomeoneAt(step, u)
        PROVE  SomeoneAt(step, u)'
    BY <1>1, <1>3, <2>2 DEF OthersStay
  <2> QED
    BY <2>1, <2>2 DEF TablesInv, HalvesAreContinued, Continued
<1> QED
  BY <1>5, <1>6, <1>7, <1>8, <1>9 DEF TablesInv

(* A list is cut to a number of users, and counts pages. *)
LEMMA PagesAreNumbers ==
    ASSUME NEW query \in Query, NEW total \in Nat, query.limit # 0
    PROVE  TotalPages(query, total) \in Nat
<1>1. query.limit \in Nat \cup {None}
  BY UserAssumption
<1>2. CASE total = 0 \/ query.limit = None
  BY <1>2 DEF TotalPages
<1>3. CASE total # 0 /\ query.limit # None
  <2> DEFINE limit == query.limit
             n == total + limit - 1
  <2>1. limit \in Nat \ {0} /\ n \in Nat
    BY <1>1, <1>3
  <2>2. TotalPages(query, total) = n \div limit
    BY <1>3 DEF TotalPages
  <2> HIDE DEF n, limit
  <2>3. n \div limit \in Nat
    BY <2>1
  <2> QED
    BY <2>2, <2>3
<1> QED
  BY <1>2, <1>3

LEMMA ListKeepsInv ==
    ASSUME TablesInv, NEW query \in Query, ListUsers(query)
    PROVE  TablesInv'
<1> DEFINE total == Cardinality(Found(query))
<1>1. total \in Nat
  <2>1. IsFiniteSet(Found(query))
    BY UserAssumption, FS_Subset DEF Found
  <2> QED
    BY <2>1, FS_CardinalityType
<1>2. TotalPages(query, total) \in Nat
  BY <1>1, PagesAreNumbers DEF ListUsers
<1>3. listed' \in Page
  BY <1>1, <1>2 DEF ListUsers, Page, Found
<1>4. UNCHANGED <<account, preference, tokens, op, requests, faults>>
  BY DEF ListUsers
<1>5. TypeOK'
  BY <1>3, <1>4 DEF TablesInv, TypeOK
<1> QED
  BY <1>4, <1>5 DEF TablesInv, DeletedInOrder, StepsFit, Fits, OneCreator, HalvesAreContinued, Continued,
                    Exists, Deleted

LEMMA ThrowKeepsInv ==
    ASSUME TablesInv, NEW p \in Proc, Throw(p)
    PROVE  TablesInv'
<1>1. faults' \in 0..MaxFaults /\ faults' # 0
  BY UserAssumption DEF Throw, TablesInv, TypeOK
<1> QED
  BY <1>1, AnsweringKeepsInv DEF Throw, TablesStay, Answers
LEMMA InitHasInv ==
    ASSUME Init
    PROVE  TablesInv
<1>1. PICK u \in User, e \in Email, w \in Password :
          /\ account = [v \in User |-> IF v = u THEN NewRow(e, w) ELSE None]
          /\ preference = [v \in User |-> IF v = u THEN "live" ELSE "none"]
  BY DEF Init
<1>2. NewRow(e, w) \in Row /\ ~NewRow(e, w).marked /\ ~NewRow(e, w).deleted
  BY DEF NewRow, Row
<1>3. Idle \in Request /\ Idle.step = "idle"
  BY DEF Idle, Request, Kinds, Steps, Answers
<1>4. account \in [User -> Row \cup {None}] /\ preference \in [User -> PreferenceRow]
  BY <1>1, <1>2 DEF PreferenceRow
<1>5. /\ op = [p \in Proc |-> Idle] /\ tokens = {} /\ listed = None /\ requests = 0 /\ faults = 0
      /\ 0 \in 0..MaxRequests /\ 0 \in 0..MaxFaults
  BY UserAssumption DEF Init
<1>6. TypeOK
  BY <1>3, <1>4, <1>5 DEF TypeOK
<1>7. DeletedInOrder
  <2> SUFFICES ASSUME NEW v \in User
               PROVE  /\ Deleted(v) => account[v].marked
                      /\ Exists(v) /\ account[v].marked => preference[v] = "deleted"
                      /\ ~Exists(v) => preference[v] = "none"
    BY DEF DeletedInOrder
  <2>1. CASE v = u
    <3>1. account[v] = NewRow(e, w) /\ account[v] # None /\ v # None
      BY <1>1, <1>2, <2>1, UserAssumption
    <3> QED
      BY <1>2, <3>1 DEF Deleted, Exists
  <2>2. CASE v # u
    BY <1>1, <2>2 DEF Deleted, Exists
  <2> QED
    BY <2>1, <2>2
<1>8. StepsFit /\ OneCreator
  BY <1>3, <1>5 DEF StepsFit, Fits, OneCreator, Writing, Deleting
<1>9. HalvesAreContinued
  <2> SUFFICES ASSUME NEW v \in User, Exists(v)
               PROVE  Continued(v)
    BY DEF HalvesAreContinued
  <2>1. v = u
    BY <1>1 DEF Exists
  <2> HIDE DEF Continued
  <2>2. preference[v] = "live" /\ account[v] = NewRow(e, w)
    BY <1>1, <2>1
  <2> QED
    BY <1>2, <2>2 DEF Continued
<1> QED
  BY <1>6, <1>7, <1>8, <1>9 DEF TablesInv

LEMMA NextKeepsInv ==
    ASSUME TablesInv, [Next]_vars
    PROVE  TablesInv'
<1>1. ASSUME NEW p \in Proc, Start(p)
      PROVE  TablesInv'
  BY <1>1, StartKeepsInv
<1>2. ASSUME NEW p \in Proc, Advance(p)
      PROVE  TablesInv'
  BY <1>2, ReadingKeepsInv, WritersKeepInv, InsertsKeepInv, IssueKeepsInv DEF Advance
<1>3. ASSUME NEW p \in Proc, Throw(p)
      PROVE  TablesInv'
  BY <1>3, ThrowKeepsInv
<1>4. ASSUME NEW query \in Query, ListUsers(query)
      PROVE  TablesInv'
  BY <1>4, ListKeepsInv
<1>5. CASE UNCHANGED vars
  BY <1>5 DEF vars, TablesInv, TypeOK, DeletedInOrder, StepsFit, Fits, OneCreator, HalvesAreContinued,
              Continued, Exists, Deleted
<1> QED
  BY <1>1, <1>2, <1>3, <1>4, <1>5 DEF Next, Quiet

(* The invariant holds in every state: types, what a request at a step may
   rely on, the order of the three deletions, and that a half-done creation or
   deletion is being continued while nothing failed.                       *)
THEOREM TablesInvariant == Spec => []TablesInv
<1>1. Init => TablesInv
  BY InitHasInv
<1>2. TablesInv /\ [Next]_vars => TablesInv'
  BY NextKeepsInv
<1> QED
  BY <1>1, <1>2, PTL DEF Spec

(* Without failures user and preference live and die together, however the
   creations, updates and deletions of all callers interleave.             *)
THEOREM PreferencesFollowUsers == Spec => []PreferenceFollowsUser
<1>1. TablesInv => PreferenceFollowsUser
  <2> SUFFICES ASSUME TablesInv, faults = 0, NEW u \in User, Exists(u), ~Busy(u)
               PROVE  /\ Live(u) <=> preference[u] = "live"
                      /\ Deleted(u) <=> account[u].marked
    BY DEF PreferenceFollowsUser
  <2>1. ~SomeoneAt("insertPreference", u) /\ ~SomeoneAt("markUser", u) /\ ~SomeoneAt("deleteUser", u)
    <3>1. ASSUME NEW step \in {"insertPreference", "markUser", "deleteUser"}, SomeoneAt(step, u)
          PROVE  FALSE
      <4>1. PICK p \in Proc : op[p].step = step /\ op[p].target = u
        BY <3>1
      <4>2. op[p].kind \in {"create", "delete"}
        BY <4>1 DEF TablesInv, StepsFit, Fits, Deleting
      <4> QED
        BY <4>1, <4>2 DEF Busy
    <3> QED
      BY <3>1
  <2>2. Continued(u)
    BY DEF TablesInv, HalvesAreContinued
  <2>3. account[u] \in Row /\ preference[u] \in PreferenceRow
    BY DEF TablesInv, TypeOK, Exists
  <2> QED
    BY <2>1, <2>2, <2>3 DEF Continued, TablesInv, DeletedInOrder, Deleted, Live, PreferenceRow, Row
<1> QED
  BY <1>1, TablesInvariant, PTL

(* Deleting is for good: whatever overlaps a deletion, no step brings a user
   or a preference back.                                                   *)
THEOREM DeletionsAreForGood == Spec => DeletedForGood
<1> DEFINE Good == \A u \in User :
                      /\ Deleted(u) => Deleted(u)'
                      /\ preference[u] = "deleted" => preference'[u] = "deleted"
<1>1. ASSUME TablesInv, Next
      PROVE  Good
  <2>1. UNCHANGED <<account, preference>> => Good
    BY DEF Deleted, Exists
  <2>2. ASSUME NEW p \in Proc, Advance(p)
        PROVE  Good
    <3>1. op[p] \in Request /\ account \in [User -> Row \cup {None}] /\ preference \in [User -> PreferenceRow]
      BY <1>1 DEF TablesInv, TypeOK
    <3>2. CASE Insert(p)
      BY <3>1, <3>2 DEF Insert, Deleted, Exists
    <3>3. CASE InsertPreference(p)
      <4>1. preference[op[p].target] = "none" /\ account' = account
        BY <1>1, <3>3 DEF InsertPreference, At, TablesInv, StepsFit, Fits
      <4> QED
        BY <3>1, <3>3, <4>1 DEF InsertPreference, Deleted, Exists
    <3>4. CASE WriteUser(p)
      <4> DEFINE t == op[p].target
                 row == Updated(account[t], op[p])
      <4>1. t \in User /\ account[t] \in Row
        BY <1>1, <3>4, TargetIsThere DEF WriteUser, At, Writing
      <4>2. row \in Row /\ row.deleted = account[t].deleted
        BY <3>1, <4>1, UpdatedRow
      <4>3. account' = account \/ account' = [account EXCEPT ![t] = row]
        BY <3>4 DEF WriteUser
      <4>4. preference' = preference /\ row # None
        BY <3>4, <4>2, UserAssumption DEF WriteUser
      <4> HIDE DEF row, t
      <4> QED
        BY <3>1, <4>1, <4>2, <4>3, <4>4 DEF Deleted, Exists
    <3>5. CASE DeletePreference(p)
      BY <3>1, <3>5 DEF DeletePreference, Deleted, Exists
    <3>6. CASE MarkUser(p) \/ DeleteUser(p)
      <4> DEFINE t == op[p].target
                 marked == [account[t] EXCEPT !.marked = TRUE]
                 deleted == [account[t] EXCEPT !.deleted = TRUE]
      <4>1. t \in User /\ account[t] \in Row
        BY <1>1, <3>6, TargetIsThere DEF MarkUser, DeleteUser, At, Deleting
      <4>2. marked \in Row /\ marked.deleted = account[t].deleted /\ deleted \in Row /\ deleted.deleted
        BY <4>1 DEF Row
      <4>3. account' = [account EXCEPT ![t] = marked] \/ account' = [account EXCEPT ![t] = deleted]
        BY <3>1, <3>6, <4>1 DEF MarkUser, DeleteUser
      <4>4. preference' = preference /\ marked # None /\ deleted # None
        BY <3>6, <4>2, UserAssumption DEF MarkUser, DeleteUser
      <4> HIDE DEF marked, deleted, t
      <4> QED
        BY <3>1, <4>1, <4>2, <4>3, <4>4 DEF Deleted, Exists
    <3> QED
      BY <2>1, <2>2, <3>2, <3>3, <3>4, <3>5, <3>6
         DEF Advance, CheckEmail, RecheckEmail, Reread, LoadUser, LoadPreference, CheckUser,
             WritePreference, CheckPreference, FindUser, LoadWithPassword, IssueToken, Return
  <2>3. ASSUME NEW p \in Proc, Start(p) \/ Throw(p)
        PROVE  UNCHANGED <<account, preference>>
    BY <2>3 DEF Start, Login, Create, Get, Delete, Update, Begin, Throw
  <2>4. ASSUME NEW query \in Query, ListUsers(query)
        PROVE  UNCHANGED <<account, preference>>
    BY <2>4 DEF ListUsers
  <2>5. Quiet => UNCHANGED <<account, preference>>
    BY DEF Quiet, vars
  <2> HIDE DEF Good
  <2> QED
    BY <1>1, <2>1, <2>2, <2>3, <2>4, <2>5 DEF Next
<1>2. TablesInv /\ [Next]_vars => [Good]_vars
  <2> HIDE DEF Good
  <2> QED
    BY <1>1
<1> QED
  BY <1>2, TablesInvariant, PTL DEF Spec, DeletedForGood
=============================================================================
