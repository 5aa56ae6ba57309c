------------------------------ MODULE MCUsers ------------------------------
(* Instances of Users for TLC. *)
EXTENDS Users, TLC

CONSTANTS u1, u2, e1, e2, w1, w2, p1, p2

TwoUsers == {u1, u2}
OneUser == {u1}
TwoEmails == {e1, e2}
OneEmail == {e1}
TwoPasswords == {w1, w2}
OnePassword == {w1}
TwoProcs == {p1, p2}
OneProc == {p1}

(* Updates of the e-mail, with or without the preference, of the password, of
   the preference, and of nothing.                                         *)
SomeChanges == [email : Email, password : {None}, prefers : BOOLEAN]
               \cup [email : {None}, password : Password, prefers : {FALSE}]
               \cup [email : {None}, password : {None}, prefers : BOOLEAN]

(* Everybody, the soft-deleted, the second page of one user each. *)
SomeQueries ==
    {[selectSoftDeleted |-> FALSE, limit |-> None, page |-> None],
     [selectSoftDeleted |-> TRUE, limit |-> None, page |-> None],
     [selectSoftDeleted |-> FALSE, limit |-> 1, page |-> 1]}

TwoQueries == {query \in SomeQueries : query.selectSoftDeleted \/ query.limit = 1}

Symmetry == Permutations(User) \cup Permutations(Email) \cup Permutations(Password)
            \cup Permutations(Proc)
=============================================================================
