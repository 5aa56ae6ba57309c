------------------------------ MODULE Accounts ------------------------------
(***************************************************************************)
(* What the application shows of its users, without tables, use cases or   *)
(* failures: a directory that changes atomically.  An account is opened    *)
(* with an e-mail nobody in the directory has, altered, and closed for     *)
(* ever; there is never one half of an account.  Who is barred from        *)
(* logging in has closed an account before, and is barred for ever.        *)
(***************************************************************************)
CONSTANTS User, Email, Password

VARIABLES accounts, closed, barred
vars == <<accounts, closed, barred>>

Account == [id : User, email : Email, password : Password]

HasAccount(id) == \E a \in accounts : a.id = id
InUse(email) == \E a \in accounts : a.email = email

Init ==
    /\ \E a \in Account : accounts = {a}
    /\ closed = {}
    /\ barred = {}

Open(a) ==
    /\ ~HasAccount(a.id) /\ a.id \notin closed
    /\ ~InUse(a.email)
    /\ accounts' = accounts \cup {a}
    /\ UNCHANGED <<closed, barred>>

Alter(a, b) ==
    /\ b.id = a.id
    /\ b.email = a.email \/ ~InUse(b.email)
    /\ accounts' = (accounts \ {a}) \cup {b}
    /\ UNCHANGED <<closed, barred>>

Close(a) ==
    /\ accounts' = accounts \ {a}
    /\ closed' = closed \cup {a.id}
    /\ UNCHANGED barred

Bar(id) ==
    /\ id \in closed
    /\ barred' = barred \cup {id}
    /\ UNCHANGED <<accounts, closed>>

Next ==
    \/ \E a \in Account : Open(a)
    \/ \E a \in accounts : Close(a) \/ \E b \in Account : Alter(a, b)
    \/ \E id \in closed : Bar(id)

Spec == Init /\ [][Next]_vars
=============================================================================
