------------------------ MODULE SubscriptionsProofs ------------------------
(***************************************************************************)
(* Proofs about Subscriptions: the invariant SubscriptionsInv and from it, *)
(* for any ids, documents, operations in progress, races and failures,     *)
(* which overlaps can duplicate a document, resurrect a deleted one, make  *)
(* the cache or the room wrong or lose an announced connection.            *)
(***************************************************************************)
EXTENDS Subscriptions, FiniteSetTheorems, TLAPS

(***************************************************************************)
(* What a step leaves alone.                                               *)
(***************************************************************************)

(* Two ids that may have been stored under each other, still may, and so on
   along a chain of them.                                                  *)
LEMMA AlikeFacts ==
    ASSUME \A t \in Sub : raced[t] \subseteq raced'[t]
    PROVE  /\ \A x, y : Alike(x, y) => Alike(x, y)' /\ Alike(y, x)
           /\ \A x, y, z : Alike(x, y) /\ Alike(y, z) => Alike(x, z)
           /\ \A x \in Sub : \A y : Alike(x, y) => x = y \/ "renamed" \in raced[x]
BY DEF Alike, Renamed

(* Everything the invariant says of s is as before, or a message stored it
   under another id, or another under it.                                  *)
SameFor(s) ==
    /\ "renamed" \notin raced'[s] =>
          /\ \A d \in Doc : d \in DocsOf(s) \/ d \in DocsOf(s)' => docs'[d] = docs[d]
          /\ \A p \in Proc : op[p].sub = s /\ op[p].doc # None => docs'[op[p].doc] = docs[op[p].doc]
    /\ \A p \in Proc : op[p].sub = s \/ op'[p].sub = s => op'[p] = op[p]
    /\ raced'[s] \in {raced[s], raced[s] \cup {"renamed"}}
    /\ cache'[s] = cache[s] /\ socket'[s] = socket[s] /\ gone'[s] = gone[s]
    /\ s \in room <=> s \in room'
    /\ s \in announced <=> s \in announced'

LEMMA Untouched ==
    ASSUME NEW s \in Sub, IdFits(s), SameFor(s)
    PROVE  IdFits(s)'
<1>1. Active(s)' = Active(s) /\ Saving(s)' = Saving(s) /\ Deleting(s)' = Deleting(s)
      /\ Getting(s)' = Getting(s)
  BY DEF Active, Saving, Deleting, Getting, SameFor
<1>2. \A p \in Active(s) : op'[p] = op[p]
  BY DEF Active, SameFor
<1>3. Saving(s) \subseteq Active(s) /\ Deleting(s) \subseteq Active(s) /\ Getting(s) \subseteq Active(s)
  BY DEF Saving, Deleting, Getting
<1>4. /\ cache'[s] = cache[s] /\ socket'[s] = socket[s] /\ gone'[s] = gone[s]
      /\ (s \in room <=> s \in room') /\ (s \in announced <=> s \in announced')
      /\ "unexpired" \in raced'[s] <=> "unexpired" \in raced[s]
  BY DEF SameFor
<1>5. gone[s]' => Saving(s)' = {}
  BY <1>1, <1>4 DEF Removed, IdFits
<1>6. Expires(s)'
  BY <1>1, <1>2, <1>4 DEF Expires, At, IdFits
<1>7. CASE "renamed" \in raced'[s]
  <2>1. Single(s)' /\ Kept(s)' /\ Removed(s)' /\ Writes(s)' /\ Cached(s)' /\ Roomed(s)'
    BY <1>5, <1>7 DEF Single, Kept, Removed, Writes, Cached, Roomed, Apart
  <2> QED
    BY <1>4, <1>6, <2>1 DEF IdFits
<1>8. CASE "renamed" \notin raced'[s]
  <2>1. raced'[s] = raced[s]
    BY <1>8 DEF SameFor
  <2>2. DocsOf(s)' = DocsOf(s) /\ \A d \in DocsOf(s) : docs'[d] = docs[d]
    BY <1>8 DEF DocsOf, SameFor
  <2>3. \A p \in Active(s) : op[p].doc # None => docs'[op[p].doc] = docs[op[p].doc]
    BY <1>8 DEF Active, SameFor
  <2>4. Single(s)'
    BY <1>1, <1>2, <1>3, <2>1, <2>2 DEF Single, Apart, IdFits
  <2>5. Kept(s)'
    BY <1>1, <1>2, <1>4, <2>1, <2>2, <2>3 DEF Kept, Apart, IdFits
  <2>6. Removed(s)'
    BY <1>1, <1>2, <1>3, <1>4, <1>5, <2>1, <2>2 DEF Removed, Apart, IdFits
  <2>7. Writes(s)'
    BY <1>1, <1>2, <1>3, <2>1, <2>3 DEF Writes, At, IdFits
  <2>8. Cached(s)'
    BY <1>1, <1>2, <1>3, <1>4, <2>1, <2>2 DEF Cached, Stored, IdFits
  <2>9. Roomed(s)'
    BY <1>1, <1>2, <1>3, <1>4, <2>1, <2>2 DEF Roomed, Stored, IdFits
  <2> QED
    BY <1>4, <1>6, <2>4, <2>5, <2>6, <2>7, <2>8, <2>9 DEF IdFits
<1> QED
  BY <1>7, <1>8

(* A step of the operation p on the id s: it begins, moves on or ends. *)
StepOf(p, s, o) ==
    /\ op' = [op EXCEPT ![p] = o]
    /\ op[p].sub \in {s, None} /\ o.sub \in {s, None}
    /\ \A t \in Sub : raced[t] \subseteq raced'[t]
    /\ socket[s] # "new" => socket'[s] # "new"
    /\ socket[s] = "closed" => socket'[s] = "closed"
    /\ \A d \in Doc : docs'[d] # docs[d] =>
          /\ docs[d] # None => Alike(docs[d].sub, s)
          /\ (docs[d] # None => Alike(docs[d].sub, s))'
          /\ docs[d] = None => \A q \in Proc : op[q].doc # d
    /\ \A t \in Sub \ {s} :
          /\ raced'[t] \in {raced[t], raced[t] \cup {"renamed"}}
          /\ cache'[t] = cache[t] /\ socket'[t] = socket[t] /\ gone'[t] = gone[t]
          /\ t \in room <=> t \in room'
          /\ t \in announced <=> t \in announced'

(* It keeps the invariant if the operation fits where it goes, the races it
   begins are noted, and the id it works on fits.                          *)
LEMMA OperationMoves ==
    ASSUME SubscriptionsInv, TypeOK', NEW p \in Proc, NEW s \in Sub, NEW o \in Operation,
           StepOf(p, s, o), OpFits(o)', DocFits(o)',
           o.sub = s => \A q \in Proc \ {p} : op[q].sub = s =>
               Race(o.kind, op[q].kind) \cup Race(op[q].kind, o.kind) \subseteq raced'[s],
           IdFits(s)'
    PROVE  SubscriptionsInv'
<1>1. None \notin Sub \cup Doc \cup Entity \cup Entry
  BY SubscriptionAssumption
<1>2. op'[p] = o /\ \A q \in Proc \ {p} : op'[q] = op[q]
  BY DEF StepOf, SubscriptionsInv, TypeOK
<1>3. ASSUME NEW q \in Proc
      PROVE  OpFits(op[q])' /\ DocFits(op[q])'
  <2>1. CASE q = p
    BY <1>2, <2>1 DEF OpFits, DocFits
  <2>2. CASE q # p
    <3>1. PICK w \in Operation : w = op[q] /\ w = op'[q] /\ OpFits(w) /\ DocFits(w)
      BY <1>2, <2>2 DEF SubscriptionsInv, TypeOK
    <3>2. w.sub \in Sub => /\ raced[w.sub] \subseteq raced'[w.sub]
                           /\ socket[w.sub] # "new" => socket'[w.sub] # "new"
                           /\ socket[w.sub] = "closed" => socket'[w.sub] = "closed"
      BY DEF StepOf
    <3>3. \A t \in Sub : raced[t] \subseteq raced'[t]
      BY DEF StepOf
    <3>4. OpFits(w)'
      <4>1. Alike(w.as, w.sub) => Alike(w.as, w.sub)'
        BY <3>3, AlikeFacts
      <4> QED
        BY <1>1, <3>1, <3>2, <4>1 DEF OpFits
    <3>5. DocFits(w)'
      <4> SUFFICES ASSUME w.doc # None, docs'[w.doc] # None
                   PROVE  Alike(docs[w.doc].sub, w.sub)'
        BY DEF DocFits
      <4>1. w.doc \in Doc
        BY DEF Operation
      <4>2. CASE docs'[w.doc] = docs[w.doc]
        <5>1. Alike(docs[w.doc].sub, w.sub)
          BY <3>1, <4>2 DEF DocFits
        <5>2. PICK x : x = docs[w.doc].sub /\ x = docs'[w.doc].sub
          BY <4>2
        <5> QED
          BY <3>3, <5>1, <5>2, AlikeFacts DEF Alike, Renamed
      <4>3. CASE docs'[w.doc] # docs[w.doc]
        <5>1. docs[w.doc] # None /\ Alike(docs[w.doc].sub, s) /\ Alike(docs[w.doc].sub, s)'
          BY <3>1, <4>1, <4>3 DEF StepOf
        <5>2. Alike(docs[w.doc].sub, w.sub)
          BY <3>1, <5>1 DEF DocFits
        <5>3. Alike(s, w.sub)
          BY <5>1, <5>2 DEF Alike
        <5>4. Alike(s, w.sub)'
          BY <3>3, <5>3 DEF Alike, Renamed
        <5> QED
          BY <5>1, <5>4 DEF Alike
      <4> QED
        BY <4>2, <4>3
    <3> QED
      BY <3>1, <3>4, <3>5 DEF OpFits, DocFits
  <2> QED
    BY <2>1, <2>2
<1>4. RacesAreNoted'
  <2> SUFFICES ASSUME NEW q \in Proc, NEW r \in Proc, q # r, op'[q].sub = op'[r].sub, op'[q].sub \in Sub
               PROVE  Race(op'[q].kind, op'[r].kind) \subseteq raced'[op'[q].sub]
    BY DEF RacesAreNoted
  <2>1. CASE q # p /\ r # p
    <3>1. Race(op[q].kind, op[r].kind) \subseteq raced[op[q].sub]
      BY <1>2, <2>1 DEF SubscriptionsInv, RacesAreNoted
    <3> QED
      BY <1>2, <2>1, <3>1 DEF StepOf
  <2>2. CASE q = p
    BY <1>1, <1>2, <2>2 DEF StepOf
  <2>3. CASE r = p
    BY <1>1, <1>2, <2>3 DEF StepOf
  <2> QED
    BY <2>1, <2>2, <2>3
<1>5. ASSUME NEW t \in Sub
      PROVE  IdFits(t)'
  <2>1. CASE t = s
    BY <2>1
  <2>2. CASE t # s
    <3> DEFINE own == "renamed" \notin raced'[t]
    <3>1. own => \A y : /\ Alike(y, t) /\ Alike(y, s) => FALSE
                        /\ Alike(t, s) => FALSE
                        /\ Alike(t, s)' => FALSE
      BY <2>2 DEF Alike, Renamed, StepOf
    <3>2. own => \A d \in Doc : d \in DocsOf(t) \/ d \in DocsOf(t)' => docs'[d] = docs[d]
      <4> SUFFICES ASSUME own, NEW d \in Doc, d \in DocsOf(t) \/ d \in DocsOf(t)',
                          docs'[d] # docs[d]
                   PROVE  FALSE
        OBVIOUS
      <4>1. CASE d \in DocsOf(t)
        <5>1. docs[d] # None /\ docs[d].sub = t
          BY <4>1 DEF DocsOf
        <5> QED
          BY <3>1, <5>1 DEF StepOf
      <4>2. CASE d \in DocsOf(t)'
        <5>1. docs'[d] # None /\ docs'[d].sub = t
          BY <4>2 DEF DocsOf
        <5>2. Alike(docs[d].sub, s)'
          BY <5>1 DEF StepOf
        <5> QED
          BY <3>1, <5>1, <5>2
      <4> QED
        BY <4>1, <4>2
    <3>3. own => \A q \in Proc : op[q].sub = t /\ op[q].doc # None => docs'[op[q].doc] = docs[op[q].doc]
      <4> SUFFICES ASSUME own, NEW q \in Proc, op[q].sub = t, op[q].doc # None,
                          docs'[op[q].doc] # docs[op[q].doc]
                   PROVE  FALSE
        OBVIOUS
      <4>1. op[q].doc \in Doc /\ DocFits(op[q])
        BY DEF SubscriptionsInv, TypeOK, Operation
      <4> QED
        BY <3>1, <4>1 DEF StepOf, DocFits
    <3>4. \A q \in Proc : op[q].sub = t \/ op'[q].sub = t => op'[q] = op[q]
      BY <1>1, <1>2, <2>2 DEF StepOf
    <3>5. SameFor(t)
      BY <2>2, <3>2, <3>3, <3>4 DEF SameFor, StepOf
    <3> QED
      BY <3>5, Untouched DEF SubscriptionsInv
  <2> QED
    BY <2>1, <2>2
<1> QED
  BY <1>3, <1>4, <1>5 DEF SubscriptionsInv

(***************************************************************************)
(* Operations begin.                                                       *)
(***************************************************************************)

(* Which race two kinds of operation make, in either order. *)
LEMMA RaceFacts ==
    ASSUME NEW k \in Kinds, NEW j \in Kinds
    PROVE  /\ Race(k, j) = Race(j, k) /\ Race(k, j) \in SUBSET Races
           /\ k \in Saves /\ j \in Saves => "saves" \in Race(k, j)
           /\ k \in Saves /\ j \in Deletes => "saveDelete" \in Race(k, j)
           /\ k = "get" /\ j # "get" => "readWrite" \in Race(k, j)
           /\ k \in Saves /\ j # "get" => Race(k, j) # {}
BY DEF Race, Kinds, Saves, Deletes, Races

(* A new operation o on s, and what the handler that calls it did first. *)
NewOperation(p, s, o) ==
    /\ Begin(p, o.kind, s, o.as, o.step, o.listen)
    /\ o.sub = s /\ o.doc = None
    /\ o.as = s \/ o.kind = "reconnect"
    /\ \/ /\ o.kind = "connect" /\ o.step = "find" /\ ~o.listen /\ socket[s] = "new"
          /\ socket' = [socket EXCEPT ![s] = "connected"]
          /\ UNCHANGED <<room, announced>>
       \/ o.kind = "reconnect" /\ o.step = "find" /\ socket[s] = "connected" /\ UNCHANGED wsVars
       \/ /\ o.kind = "disconnect" /\ o.step = "find" /\ socket[s] = "connected"
          /\ socket' = [socket EXCEPT ![s] = "closed"]
          /\ room' = room \ {s}
          /\ UNCHANGED announced
       \/ o.kind \in {"put", "remove"} /\ o.step = "find" /\ UNCHANGED wsVars
       \/ o.kind = "get" /\ o.step = "lookup" /\ UNCHANGED wsVars

LEMMA NewOperationKeepsInv ==
    ASSUME SubscriptionsInv, NEW p \in Proc, NEW s \in Sub, NEW o \in Operation,
           NewOperation(p, s, o)
    PROVE  SubscriptionsInv'
<1>1. None \notin Sub \cup Doc \cup Entity \cup Entry
  BY SubscriptionAssumption
<1>2. /\ op[p] = Idle /\ op[p].sub = None /\ op[p].step = "idle"
      /\ UNCHANGED <<docs, cache, faults>> /\ listed' = {}
      /\ gone' = [gone EXCEPT ![s] = @ /\ o.kind \notin Saves]
  BY DEF NewOperation, Begin, Idle
<1>3. op' = [op EXCEPT ![p] = o] /\ op'[p] = o /\ \A q \in Proc \ {p} : op'[q] = op[q]
  <2>1. o = [kind |-> o.kind, sub |-> s, as |-> o.as, step |-> o.step, doc |-> None,
             listen |-> o.listen]
    BY DEF NewOperation, Operation
  <2> QED
    BY <2>1 DEF NewOperation, Begin, SubscriptionsInv, TypeOK
<1>4. /\ raced' \in [Sub -> SUBSET Races]
      /\ \A t \in Sub : raced[t] \subseteq raced'[t]
      /\ \A t \in Sub \ {s} : raced'[t] \in {raced[t], raced[t] \cup {"renamed"}}
      /\ \A q \in Active(s) : Race(o.kind, op[q].kind) \subseteq raced'[s]
      /\ o.kind \in {"put", "remove"} => "foreign" \in raced'[s]
      /\ Alike(o.as, s)'
  <2> DEFINE clashes == Clashes(o.kind, s)
             named(t) == IF o.as # s /\ t \in {s, o.as} THEN {"renamed"} ELSE {}
             own(t) == IF t = s THEN clashes ELSE {}
  <2>1. raced' = [t \in Sub |-> raced[t] \cup own(t) \cup named(t)]
    BY DEF NewOperation, Begin
  <2>2. ASSUME NEW q \in Active(s)
        PROVE  Race(o.kind, op[q].kind) \subseteq Races
    <3>1. op[q].kind \in Kinds
      BY DEF Active, SubscriptionsInv, TypeOK, Operation
    <3> QED
      BY <3>1, RaceFacts DEF Operation
  <2>3. /\ clashes \subseteq Races
        /\ \A q \in Active(s) : Race(o.kind, op[q].kind) \subseteq clashes
        /\ o.kind \in {"put", "remove"} => "foreign" \in clashes
    BY <2>2 DEF Clashes, Races
  <2> HIDE DEF clashes
  <2>4. \A t \in Sub : /\ raced'[t] = raced[t] \cup own(t) \cup named(t)
                       /\ named(t) \subseteq Races /\ named(t) \in {{}, {"renamed"}}
                       /\ raced[t] \subseteq Races
    BY <2>1 DEF SubscriptionsInv, TypeOK, Races
  <2>5. o.as # s => \A t \in Sub : t \in {s, o.as} => "renamed" \in raced'[t]
    BY <2>4
  <2>6. Alike(o.as, s)'
    BY <2>5 DEF Alike, Renamed
  <2> HIDE DEF named
  <2>7. \A t \in Sub : /\ raced'[t] \in SUBSET Races /\ raced[t] \subseteq raced'[t]
                       /\ t # s => raced'[t] \in {raced[t], raced[t] \cup {"renamed"}}
    BY <2>3, <2>4
  <2>8. raced' \in [Sub -> SUBSET Races]
    BY <2>1, <2>7
  <2>9. clashes \subseteq raced'[s]
    BY <2>4
  <2> QED
    BY <2>3, <2>6, <2>7, <2>8, <2>9
<1>5. /\ socket' \in [Sub -> {"new", "connected", "closed"}] /\ room' \subseteq room
      /\ UNCHANGED announced
      /\ \A t \in Sub \ {s} : socket'[t] = socket[t] /\ (t \in room <=> t \in room')
      /\ socket'[s] = IF o.kind = "connect" THEN "connected"
                      ELSE IF o.kind = "disconnect" THEN "closed" ELSE socket[s]
      /\ o.kind = "connect" => socket[s] = "new"
      /\ o.kind \in {"reconnect", "disconnect"} => socket[s] = "connected"
      /\ s \in room' <=> s \in room /\ o.kind # "disconnect"
  BY DEF NewOperation, wsVars, SubscriptionsInv, TypeOK
<1>6. /\ o.kind \in Kinds \ {"list"} /\ o.sub = s /\ o.doc = None
      /\ o.as = o.sub \/ o.kind = "reconnect"
      /\ o.step = IF o.kind = "get" THEN "lookup" ELSE "find"
      /\ o.kind = "connect" => ~o.listen
  BY DEF NewOperation, Kinds, Saves, Deletes
<1>7. TypeOK'
  BY <1>2, <1>3, <1>4, <1>5 DEF SubscriptionsInv, TypeOK
<1>8. OpFits(o)' /\ DocFits(o)'
  BY <1>4, <1>5, <1>6 DEF OpFits, DocFits, Kinds, Saves, Deletes
<1>9. \A q \in Active(s) : /\ q # p /\ op'[q] = op[q] /\ op[q].kind \in Kinds
                           /\ Race(o.kind, op[q].kind) \cup Race(op[q].kind, o.kind) \subseteq raced'[s]
  BY <1>2, <1>3, <1>4, RaceFacts DEF Active, SubscriptionsInv, TypeOK, Operation
<1>10. Active(s)' = Active(s) \cup {p} /\ DocsOf(s)' = DocsOf(s)
  BY <1>1, <1>2, <1>3, <1>6 DEF Active, DocsOf
<1>11. /\ Saving(s)' = Saving(s) \cup {q \in {p} : o.kind \in Saves}
       /\ Deleting(s)' = Deleting(s) \cup {q \in {p} : o.kind \in Deletes}
       /\ Getting(s)' = Getting(s) \cup {q \in {p} : o.kind = "get"}
       /\ Saving(s) \cup Deleting(s) \cup Getting(s) \subseteq Active(s)
  BY <1>3, <1>9, <1>10 DEF Saving, Deleting, Getting
<1>12. IdFits(s)
  BY DEF SubscriptionsInv
<1>13. Single(s)'
  BY <1>2, <1>3, <1>4, <1>6, <1>9, <1>10, <1>11, <1>12 DEF Single, Apart, IdFits, Saves
<1>14. Kept(s)'
  <2>1. ASSUME "foreign" \notin raced[s], socket[s] = "new", NEW q \in Active(s)
        PROVE  op[q].doc = None
    <3>1. op[q].sub = s /\ op[q].step # "idle" /\ OpFits(op[q])
      BY DEF Active, SubscriptionsInv
    <3> QED
      BY <1>1, <2>1, <3>1 DEF OpFits, Idle, Saves, Deletes
  <2> QED
    BY <1>2, <1>3, <1>4, <1>5, <1>6, <1>9, <1>10, <1>12, <2>1 DEF Kept, Apart, IdFits
<1>15. Removed(s)'
  <2>1. gone'[s] => gone[s] /\ Saving(s)' = {}
    <3>1. gone'[s] = (gone[s] /\ o.kind \notin Saves)
      BY <1>2 DEF SubscriptionsInv, TypeOK
    <3> QED
      BY <1>11, <1>12, <3>1 DEF Removed, IdFits
  <2>2. \A q \in Deleting(s)' : q \in Deleting(s) \/ op'[q].step = "find"
    BY <1>3, <1>6, <1>11 DEF Deletes
  <2>3. \A q \in Getting(s)' : q \in Getting(s) \/ op'[q].step = "lookup"
    BY <1>3, <1>6, <1>11
  <2>4. \A q \in Deleting(s) \cup Getting(s) : op'[q] = op[q]
    BY <1>9, <1>11
  <2> QED
    BY <1>2, <1>4, <1>10, <1>12, <2>1, <2>2, <2>3, <2>4 DEF Removed, Apart, IdFits
<1>16. Writes(s)' /\ Cached(s)'
  <2>1. Writes(s)'
    BY <1>1, <1>2, <1>3, <1>4, <1>6, <1>9, <1>11, <1>12 DEF Writes, At, IdFits
  <2>2. Cached(s)'
    BY <1>2, <1>3, <1>4, <1>6, <1>9, <1>10, <1>11, <1>12 DEF Cached, Stored, IdFits, Saves
  <2> QED
    BY <2>1, <2>2
<1>17. Roomed(s)'
  <2> SUFFICES ASSUME raced'[s] \subseteq {"readWrite"} PROVE Roomed(s)'
    BY DEF Roomed
  <2>1. /\ raced[s] \subseteq {"readWrite"} /\ o.kind \notin {"put", "remove"}
        /\ raced[s] \cap {"foreign", "renamed"} = {}
    BY <1>4
  <2>2. o.kind = "disconnect" => Saving(s) = {}
    <3>1. ASSUME o.kind = "disconnect", NEW q \in Saving(s)
          PROVE  FALSE
      <4>1. q \in Active(s) /\ op[q].kind \in Saves /\ op[q].kind \in Kinds
        BY <1>9 DEF Saving
      <4>2. "saveDelete" \in Race(op[q].kind, o.kind)
        BY <1>6, <3>1, <4>1, RaceFacts DEF Deletes
      <4> QED
        BY <1>9, <4>1, <4>2
    <3> QED
      BY <3>1
  <2>3. o.kind = "connect" => DocsOf(s) = {} /\ s \notin room
    BY <1>5, <1>12, <2>1 DEF IdFits, Kept, Apart
  <2>4. \A q \in Saving(s)' : op'[q].kind = "connect" =>
            /\ ~op'[q].listen /\ s \notin room' /\ (op'[q].doc = None => DocsOf(s)' = {})
            /\ op'[q].step = "write" => op'[q].doc = None
    <3>1. \A q \in Saving(s) : op'[q] = op[q]
      BY <1>9, <1>11
    <3>2. \A q \in Saving(s) : op[q].kind = "connect" =>
              ~op[q].listen /\ s \notin room /\ (op[q].doc = None => DocsOf(s) = {})
                            /\ (op[q].step = "write" => op[q].doc = None)
      BY <1>12, <2>1 DEF IdFits, Roomed
    <3> QED
      BY <1>3, <1>5, <1>6, <1>10, <1>11, <2>3, <3>1, <3>2
  <2>5. \A q \in Deleting(s)' : s \notin room'
    BY <1>5, <1>6, <1>11, <1>12, <2>1 DEF IdFits, Roomed, Deletes, Saves, Kinds
  <2>6. \/ s \in room' <=> Stored(s, TRUE)'
        \/ \E q \in Saving(s)' : op'[q].kind = "reconnect" /\ op'[q].step \notin {"find", "write"}
        \/ \E q \in Deleting(s)' : op'[q].step \in {"find", "erase"}
    BY <1>2, <1>3, <1>5, <1>6, <1>9, <1>10, <1>11, <1>12, <2>1 DEF IdFits, Roomed, Stored, Deletes
  <2> QED
    BY <2>4, <2>5, <2>6 DEF Roomed
<1>18. Expires(s)'
  BY <1>2, <1>4, <1>9, <1>10, <1>12 DEF Expires, At, IdFits
<1>19. IdFits(s)'
  BY <1>5, <1>12, <1>13, <1>14, <1>15, <1>16, <1>17, <1>18 DEF IdFits
<1>20. StepOf(p, s, o)
  BY <1>2, <1>3, <1>4, <1>5, <1>6 DEF StepOf, SubscriptionsInv, TypeOK
<1>21. \A q \in Proc \ {p} : op[q].sub = s =>
           Race(o.kind, op[q].kind) \cup Race(op[q].kind, o.kind) \subseteq raced'[s]
  BY <1>1, <1>9 DEF Active, SubscriptionsInv, OpFits, Idle
<1> QED
  BY <1>7, <1>8, <1>19, <1>20, <1>21, OperationMoves

LEMMA StartKeepsInv ==
    ASSUME SubscriptionsInv, NEW p \in Proc, NEW s \in Sub, Start(p, s)
    PROVE  SubscriptionsInv'
<1>1. ASSUME NEW k \in Kinds, NEW as \in Sub \cup {None}, NEW step \in Steps,
             NEW listen \in BOOLEAN, Begin(p, k, s, as, step, listen), as = s \/ k = "reconnect",
             \/ /\ k = "connect" /\ step = "find" /\ ~listen /\ socket[s] = "new"
                /\ socket' = [socket EXCEPT ![s] = "connected"]
                /\ UNCHANGED <<room, announced>>
             \/ k = "reconnect" /\ step = "find" /\ socket[s] = "connected" /\ UNCHANGED wsVars
             \/ /\ k = "disconnect" /\ step = "find" /\ socket[s] = "connected"
                /\ socket' = [socket EXCEPT ![s] = "closed"]
                /\ room' = room \ {s}
                /\ UNCHANGED announced
             \/ k \in {"put", "remove"} /\ step = "find" /\ UNCHANGED wsVars
             \/ k = "get" /\ step = "lookup" /\ UNCHANGED wsVars
      PROVE  SubscriptionsInv'
  <2> DEFINE o == [kind |-> k, sub |-> s, as |-> as, step |-> step, doc |-> None,
                   listen |-> listen]
  <2>1. /\ o \in Operation /\ o.kind = k /\ o.sub = s /\ o.as = as /\ o.step = step
        /\ o.doc = None /\ o.listen = listen
    BY DEF Operation
  <2> HIDE DEF o
  <2>2. NewOperation(p, s, o)
    BY <1>1, <2>1 DEF NewOperation
  <2> QED
    BY <2>1, <2>2, NewOperationKeepsInv
<1>2. /\ {"connect", "reconnect", "put", "disconnect", "remove", "get"} \subseteq Kinds
      /\ "find" \in Steps /\ "lookup" \in Steps
  BY DEF Kinds, Saves, Deletes, Steps
<1>3. CASE Connect(p, s)
  BY <1>1, <1>2, <1>3 DEF Connect
<1>4. CASE Disconnect(p, s)
  BY <1>1, <1>2, <1>4 DEF Disconnect
<1>5. CASE Remove(p, s)
  BY <1>1, <1>2, <1>5 DEF Remove
<1>6. CASE Get(p, s)
  BY <1>1, <1>2, <1>6 DEF Get
<1>7. ASSUME NEW listen \in BOOLEAN, NEW as \in {s} \cup Carried, Reconnect(p, s, as, listen)
      PROVE  SubscriptionsInv'
  <2>1. as \in Sub \cup {None}
    BY SubscriptionAssumption
  <2> QED
    BY <1>1, <1>2, <1>7, <2>1 DEF Reconnect
<1>8. ASSUME NEW listen \in BOOLEAN, Put(p, s, listen)
      PROVE  SubscriptionsInv'
  BY <1>1, <1>2, <1>8 DEF Put
<1> QED
  BY <1>3, <1>4, <1>5, <1>6, <1>7, <1>8 DEF Start

(***************************************************************************)
(* Operations move on.                                                     *)
(***************************************************************************)

(* An operation on s and the others in progress with it. *)
LEMMA InProgress ==
    ASSUME SubscriptionsInv, NEW p \in Proc, op[p].step \notin {"idle", "keys", "findMany"}
    PROVE  /\ op[p].sub \in Sub /\ p \in Active(op[p].sub) /\ op[p] \in Operation /\ op[p] # Idle
           /\ OpFits(op[p]) /\ DocFits(op[p]) /\ IdFits(op[p].sub)
           /\ \A q \in Active(op[p].sub) \ {p} :
                 /\ op[p].kind \in Saves /\ op[q].kind \in Saves => "saves" \in raced[op[p].sub]
                 /\ op[p].kind \in Saves /\ op[q].kind \in Deletes => "saveDelete" \in raced[op[p].sub]
                 /\ op[p].kind \in Deletes /\ op[q].kind \in Saves => "saveDelete" \in raced[op[p].sub]
                 /\ op[p].kind = "get" /\ op[q].kind # "get" => "readWrite" \in raced[op[p].sub]
                 /\ op[p].kind # "get" /\ op[q].kind = "get" => "readWrite" \in raced[op[p].sub]
           /\ \A q \in Proc \ {p} : op[q].sub = op[p].sub =>
                 Race(op[p].kind, op[q].kind) \cup Race(op[q].kind, op[p].kind) \subseteq raced[op[p].sub]
<1>1. OpFits(op[p]) /\ DocFits(op[p]) /\ op[p] \in Operation /\ op[p] # Idle
  BY DEF SubscriptionsInv, TypeOK, Idle
<1>2. op[p].sub \in Sub
  BY <1>1 DEF OpFits
<1>3. p \in Active(op[p].sub) /\ IdFits(op[p].sub)
  BY <1>2 DEF Active, SubscriptionsInv
<1>4. ASSUME NEW q \in Proc \ {p}, op[q].sub = op[p].sub
      PROVE  /\ op[q].kind \in Kinds /\ op[p].kind \in Kinds
             /\ Race(op[p].kind, op[q].kind) \subseteq raced[op[p].sub]
             /\ Race(op[q].kind, op[p].kind) \subseteq raced[op[p].sub]
  BY <1>2, <1>4 DEF SubscriptionsInv, RacesAreNoted, TypeOK, Operation
<1>5. ASSUME NEW q \in Active(op[p].sub) \ {p}
      PROVE  /\ op[p].kind \in Saves /\ op[q].kind \in Saves => "saves" \in raced[op[p].sub]
             /\ op[p].kind \in Saves /\ op[q].kind \in Deletes => "saveDelete" \in raced[op[p].sub]
             /\ op[p].kind \in Deletes /\ op[q].kind \in Saves => "saveDelete" \in raced[op[p].sub]
             /\ op[p].kind = "get" /\ op[q].kind # "get" => "readWrite" \in raced[op[p].sub]
             /\ op[p].kind # "get" /\ op[q].kind = "get" => "readWrite" \in raced[op[p].sub]
  <2>1. q \in Proc \ {p} /\ op[q].sub = op[p].sub
    BY DEF Active
  <2> QED
    BY <1>4, <2>1, RaceFacts
<1> QED
  BY <1>1, <1>2, <1>3, <1>4, <1>5

(* The operation p goes on, as o. *)
LEMMA AfterMove ==
    ASSUME TypeOK, NEW p \in Proc, NEW o \in Operation, op' = [op EXCEPT ![p] = o], NEW s \in Sub,
           op[p].step # "idle", o.step # "idle",
           op[p].sub = s, o.sub = s, o.kind = op[p].kind
    PROVE  /\ op'[p] = o /\ \A q \in Proc \ {p} : op'[q] = op[q]
           /\ Active(s)' = Active(s) /\ Saving(s)' = Saving(s) /\ Deleting(s)' = Deleting(s)
           /\ Getting(s)' = Getting(s)
<1>1. op'[p] = o /\ \A q \in Proc \ {p} : op'[q] = op[q]
  BY DEF TypeOK
<1>2. Active(s)' = Active(s)
  BY <1>1 DEF Active
<1>3. \A q \in Proc : op'[q].kind = op[q].kind
  BY <1>1
<1> QED
  BY <1>1, <1>2, <1>3 DEF Saving, Deleting, Getting, Active

(* The operation p is over. *)
LEMMA AfterReturn ==
    ASSUME TypeOK, NEW p \in Proc, op' = [op EXCEPT ![p] = Idle], NEW s \in Sub
    PROVE  /\ op'[p] = Idle /\ \A q \in Proc \ {p} : op'[q] = op[q]
           /\ Active(s)' = Active(s) \ {p} /\ Saving(s)' = Saving(s) \ {p}
           /\ Deleting(s)' = Deleting(s) \ {p} /\ Getting(s)' = Getting(s) \ {p}
<1>1. op'[p] = Idle /\ \A q \in Proc \ {p} : op'[q] = op[q]
  BY DEF TypeOK
<1>2. Active(s)' = Active(s) \ {p}
  BY <1>1 DEF Active, Idle
<1> QED
  BY <1>1, <1>2 DEF Saving, Deleting, Getting, Active

(* Steps that only read: what was read fits the id. *)
LEMMA ReadKeepsInv ==
    ASSUME SubscriptionsInv, NEW p \in Proc, NEW s \in Sub, NEW o \in Operation,
           op[p].step \notin {"idle", "keys", "findMany"},
           op' = [op EXCEPT ![p] = o], UNCHANGED <<docs, cache, wsVars, historyVars, listed>>,
           op[p].sub = s, o.sub = s, o.kind = op[p].kind, o.step # "idle", op[p].step # "expire",
           OpFits(o), DocFits(o),
           \/ /\ op[p].step = "find" /\ op[p].kind \in Saves /\ o.step = "write"
              /\ \/ DocsOf(s) = {} /\ o.doc = None
                 \/ o.doc \in DocsOf(s)
              /\ o.listen = op[p].listen
           \/ /\ op[p].step = "find" /\ op[p].kind \in Deletes /\ o.step = "erase"
              /\ \/ DocsOf(s) = {} /\ o.doc = None
                 \/ o.doc \in DocsOf(s)
           \/ /\ op[p].step = "reread" /\ o.doc = op[p].doc
              /\ \/ docs[o.doc] = None /\ o.step = "return" /\ ~o.listen
                 \/ docs[o.doc] # None /\ o.step = "cache" /\ o.listen = docs[o.doc].listen
           \/ /\ op[p].step = "lookup" /\ o.doc = None
              /\ \/ cache[s] = None /\ o.step = "fetch"
                 \/ cache[s] # None /\ o.step = "cache" /\ o.listen = cache[s].listen
           \/ op[p].step = "fetch" /\ o.doc = None /\ o.step = "cache" /\ Stored(s, o.listen)
    PROVE  SubscriptionsInv'
<1>1. None \notin Sub \cup Doc \cup Entity \cup Entry
  BY SubscriptionAssumption
<1>2. TypeOK /\ op[p].step # "idle"
  BY DEF SubscriptionsInv
<1>3. /\ op'[p] = o /\ \A q \in Proc \ {p} : op'[q] = op[q]
      /\ Active(s)' = Active(s) /\ Saving(s)' = Saving(s) /\ Deleting(s)' = Deleting(s)
      /\ Getting(s)' = Getting(s)
  BY <1>2, AfterMove
<1>4. /\ docs' = docs /\ cache' = cache /\ raced' = raced /\ gone' = gone /\ socket' = socket
      /\ room' = room /\ announced' = announced /\ DocsOf(s)' = DocsOf(s)
  BY DEF wsVars, historyVars, DocsOf
<1>5. TypeOK'
  BY <1>2 DEF TypeOK, wsVars, historyVars
<1>6. /\ OpFits(op[p]) /\ IdFits(s) /\ op[p] \in Operation
      /\ \A q \in Active(s) \ {p} :
            /\ op[p].kind = "get" /\ op[q].kind # "get" => "readWrite" \in raced[s]
            /\ op[p].kind \in Saves /\ op[q].kind \in Saves => "saves" \in raced[s]
            /\ op[p].kind \in Saves /\ op[q].kind \in Deletes => "saveDelete" \in raced[s]
      /\ \A q \in Proc \ {p} : op[q].sub = s =>
            Race(o.kind, op[q].kind) \cup Race(op[q].kind, o.kind) \subseteq raced[s]
  BY InProgress
<1>7. /\ Saving(s) \cup Deleting(s) \cup Getting(s) \subseteq Active(s) /\ Active(s) \subseteq Proc
      /\ p \in Active(s)
      /\ p \in Saving(s) <=> op[p].kind \in Saves
      /\ p \in Deleting(s) <=> op[p].kind \in Deletes
      /\ p \in Getting(s) <=> op[p].kind = "get"
  BY <1>2 DEF Saving, Deleting, Getting, Active
<1>8. /\ op[p].step \in {"find", "reread"} => op[p].kind # "get"
      /\ op[p].step = "reread" => op[p].kind \in Saves
      /\ op[p].step \in {"lookup", "fetch"} => op[p].kind = "get"
      /\ op[p].step = "find" /\ op[p].kind \in Saves => op[p].doc = None
      /\ op[p].step = "reread" => op[p].doc # None
      /\ op[p].kind \in Saves => op[p].kind \notin Deletes /\ op[p].kind # "get"
      /\ op[p].kind \in Deletes => op[p].kind # "get"
  BY <1>2, <1>6 DEF OpFits, Idle, Saves, Deletes
<1>9. \A d \in DocsOf(s) : d \in Doc /\ docs[d] # None /\ d # None
  BY <1>1 DEF DocsOf
<1>10. Single(s)'
  BY <1>3, <1>4, <1>6, <1>7, <1>8, <1>9 DEF Single, Apart, IdFits
<1>11. Kept(s)'
  BY <1>3, <1>4, <1>6, <1>7, <1>8, <1>9 DEF Kept, Apart, IdFits
<1>12. Removed(s)'
  <2>1. Apart(s, {"saves", "saveDelete", "renamed"}) /\ op[p].step = "find" => DocsOf(s) \subseteq {o.doc}
    BY <1>6, <1>8 DEF Single, Apart, IdFits
  <2>2. ASSUME Apart(s, {"saves", "saveDelete", "renamed"}), gone[s], "readWrite" \notin raced[s],
               op[p].kind = "get"
        PROVE  o.step \in {"lookup", "fetch"}
    BY <1>6, <1>7, <1>8, <2>2 DEF Removed, Stored, IdFits
  <2> QED
    BY <1>3, <1>4, <1>6, <1>7, <1>8, <2>1, <2>2 DEF Removed, Apart, IdFits
<1>13. Writes(s)'
  <2> SUFFICES ASSUME raced[s] \subseteq {"foreign", "readWrite"}, NEW q \in Saving(s),
                      op'[q].doc # None
               PROVE  /\ docs[op'[q].doc] # None
                      /\ \/ op'[q].step = "write"
                         \/ op'[q].step = "reread" /\ op'[q].kind = "put"
                         \/ docs[op'[q].doc].listen = op'[q].listen
    BY <1>3, <1>4 DEF Writes, At
  <2>1. CASE q # p
    BY <1>3, <1>6, <1>7, <2>1 DEF Writes, At, IdFits
  <2>2. CASE q = p
    <3>1. op'[q] = o /\ op[p].kind \in Saves
      BY <1>3, <1>7, <2>2
    <3>2. op[p].step = "reread" => docs[op[p].doc] # None
      BY <1>6, <1>7, <1>8, <3>1 DEF Writes, IdFits
    <3> QED
      BY <1>8, <1>9, <3>1, <3>2
  <2> QED
    BY <2>1, <2>2
<1>14. Cached(s)'
  <2> SUFFICES ASSUME raced[s] \subseteq {"foreign"} PROVE Cached(s)'
    BY <1>4 DEF Cached
  <2>1. op[p].kind = "get" => \A q \in Saving(s) \cup Deleting(s) : FALSE
    BY <1>6, <1>7, <1>8 DEF Saving, Deleting, Saves, Deletes
  <2>2. op[p].step = "reread" => o.step = "cache"
    BY <1>6, <1>7, <1>8 DEF Writes, IdFits
  <2>3. \A q \in Getting(s) : op'[q].step = "cache" => Stored(s, op'[q].listen)
    BY <1>3, <1>6, <1>7, <1>8, <2>1 DEF Cached, IdFits
  <2>4. \/ cache[s] = None
        \/ Stored(s, cache[s].listen)
        \/ \E q \in Saving(s) : op'[q].step \in {"reread", "cache"}
        \/ \E q \in Deleting(s) : op'[q].step = "uncache"
    BY <1>3, <1>6, <1>7, <1>8, <2>2 DEF Cached, IdFits
  <2> QED
    BY <1>3, <1>4, <2>3, <2>4 DEF Cached, Stored
<1>15. Roomed(s)'
  <2> SUFFICES ASSUME raced[s] \subseteq {"readWrite"} PROVE Roomed(s)'
    BY <1>4 DEF Roomed
  <2>1. op[p].step = "reread" => o.listen = op[p].listen
    <3>1. op[p].kind # "put"
      BY <1>6, <1>7 DEF OpFits, Idle, Deletes
    <3> QED
      BY <1>6, <1>7, <1>8, <3>1 DEF Writes, At, IdFits
  <2>2. /\ \A q \in Deleting(s) : s \notin room
        /\ \A q \in Saving(s) : op[q].kind = "connect" =>
              ~op[q].listen /\ s \notin room /\ (op[q].doc = None => DocsOf(s) = {})
                            /\ (op[q].step = "write" => op[q].doc = None)
        /\ \/ s \in room <=> Stored(s, TRUE)
           \/ \E q \in Saving(s) : op[q].kind = "reconnect" /\ op[q].step \notin {"find", "write"}
           \/ \E q \in Deleting(s) : op[q].step \in {"find", "erase"}
    BY <1>6 DEF Roomed, IdFits
  <2>3. ASSUME NEW q \in Saving(s), op'[q].kind = "connect"
        PROVE  ~op'[q].listen /\ s \notin room /\ (op'[q].doc = None => DocsOf(s) = {})
                              /\ (op'[q].step = "write" => op'[q].doc = None)
    <3>1. CASE q # p
      BY <1>3, <1>7, <2>2, <2>3, <3>1
    <3>2. CASE q = p
      <4>1. op'[p] = o /\ op[p].kind = "connect" /\ op[p].kind \in Saves
        BY <1>3, <1>7, <2>3, <3>2
      <4>2. ~op[p].listen /\ s \notin room /\ (op[p].doc = None => DocsOf(s) = {})
        BY <2>2, <2>3, <3>2, <4>1
      <4> QED
        BY <1>8, <1>9, <2>1, <3>2, <4>1, <4>2
    <3> QED
      BY <3>1, <3>2
  <2>4. \A q \in Saving(s) : op[q].kind = "reconnect" /\ op[q].step \notin {"find", "write"} =>
            op'[q].kind = "reconnect" /\ op'[q].step \notin {"find", "write"}
    BY <1>3, <1>7, <1>8
  <2>5. \A q \in Deleting(s) : op[q].step \in {"find", "erase"} => op'[q].step \in {"find", "erase"}
    BY <1>3, <1>7, <1>8
  <2> QED
    BY <1>3, <1>4, <2>2, <2>3, <2>4, <2>5 DEF Roomed, Stored
<1>16. Expires(s)'
  BY <1>3, <1>4, <1>6 DEF Expires, At, IdFits
<1>17. IdFits(s)'
  BY <1>4, <1>6, <1>10, <1>11, <1>12, <1>13, <1>14, <1>15, <1>16 DEF IdFits
<1>18. OpFits(o)' /\ DocFits(o)'
  BY <1>4 DEF OpFits, DocFits, Alike, Renamed
<1>19. StepOf(p, s, o)
  BY <1>4 DEF StepOf
<1> QED
  BY <1>4, <1>5, <1>6, <1>17, <1>18, <1>19, OperationMoves

(* Steps that write: a save inserts or updates its document d. *)
Saved(p, d) ==
    \/ op[p].doc = None /\ d \in Unused /\ docs' = [docs EXCEPT ![d] = Written(p)]
    \/ op[p].doc = d /\ docs' = [docs EXCEPT ![d] = IF docs[d] = None THEN None ELSE Written(p)]

LEMMA SaveKeepsInv ==
    ASSUME SubscriptionsInv, NEW p \in Proc, NEW s \in Sub, NEW o \in Operation, NEW d \in Doc,
           op[p].step = "write", op[p].sub = s,
           op' = [op EXCEPT ![p] = o], UNCHANGED <<cache, wsVars, historyVars, listed>>,
           o.sub = s, o.as = op[p].as, o.kind = op[p].kind, o.step = "reread", o.doc = d,
           o.listen = op[p].listen, Saved(p, d)
    PROVE  SubscriptionsInv'
<1>1. None \notin Sub \cup Doc \cup Entity \cup Entry
  BY SubscriptionAssumption
<1>2. TypeOK /\ op[p].step # "idle" /\ o.step # "idle" /\ op[p].step \notin {"idle", "keys", "findMany"}
  BY DEF SubscriptionsInv
<1>3. /\ op'[p] = o /\ \A q \in Proc \ {p} : op'[q] = op[q]
      /\ Active(s)' = Active(s) /\ Saving(s)' = Saving(s) /\ Deleting(s)' = Deleting(s)
      /\ Getting(s)' = Getting(s)
  <2>1. op' = [op EXCEPT ![p] = o] /\ op[p].sub = s /\ o.sub = s /\ o.kind = op[p].kind
    OBVIOUS
  <2> QED
    BY <1>2, <2>1, AfterMove
<1>4. /\ cache' = cache /\ raced' = raced /\ gone' = gone /\ socket' = socket
      /\ room' = room /\ announced' = announced
  BY DEF wsVars, historyVars
<1>5. /\ OpFits(op[p]) /\ DocFits(op[p]) /\ IdFits(s) /\ op[p] \in Operation
      /\ \A q \in Active(s) \ {p} :
            /\ op[p].kind \in Saves /\ op[q].kind \in Saves => "saves" \in raced[s]
            /\ op[p].kind \in Saves /\ op[q].kind \in Deletes => "saveDelete" \in raced[s]
            /\ op[p].kind # "get" /\ op[q].kind = "get" => "readWrite" \in raced[s]
      /\ \A q \in Proc \ {p} : op[q].sub = s =>
            Race(o.kind, op[q].kind) \cup Race(op[q].kind, o.kind) \subseteq raced[s]
  BY <1>2, InProgress
<1>6. /\ op[p].kind \in Saves /\ op[p].kind \notin Deletes /\ op[p].kind # "get"
      /\ op[p].kind = "put" => "foreign" \in raced[s]
      /\ op[p].kind # "put" => socket[s] # "new"
  BY <1>2, <1>5 DEF OpFits, Idle, Saves, Deletes
<1>7. /\ Saving(s) \cup Deleting(s) \cup Getting(s) \subseteq Active(s) /\ Active(s) \subseteq Proc
      /\ p \in Active(s) /\ p \in Saving(s) /\ p \notin Deleting(s) /\ p \notin Getting(s)
      /\ \A q \in Saving(s) : op[q].kind \in Saves
      /\ \A q \in Deleting(s) : op[q].kind \in Deletes
      /\ \A q \in Getting(s) : op[q].kind = "get"
  BY <1>2, <1>6 DEF Saving, Deleting, Getting, Active
<1>8. /\ Written(p) = [sub |-> op[p].as, listen |-> op[p].listen /\ op[p].kind # "put"]
      /\ Written(p) \in Entity /\ Written(p) # None
      /\ op[p].listen \in BOOLEAN /\ Alike(op[p].as, s) /\ Alike(Written(p).sub, s)
      /\ op[p].kind # "put" => Written(p).listen = op[p].listen
      /\ op[p].as = s \/ op[p].kind = "reconnect"
      /\ "renamed" \notin raced[s] => Written(p).sub = s
  <2>1. op[p].listen \in BOOLEAN /\ op[p].as \in Sub \cup {None}
    BY <1>5 DEF Operation
  <2>2. /\ Written(p) = [sub |-> op[p].as, listen |-> op[p].listen /\ op[p].kind # "put"]
        /\ Written(p) \in Entity
    BY <2>1 DEF Written, Entity
  <2>3. Alike(op[p].as, s) /\ (op[p].as = s \/ op[p].kind = "reconnect")
    BY <1>1, <1>2, <1>5, <1>6 DEF OpFits, Idle
  <2>4. "renamed" \notin raced[s] => op[p].as = s
    BY <2>3 DEF Alike, Renamed
  <2> QED
    BY <1>1, <2>1, <2>2, <2>3, <2>4
<1>9. /\ docs' \in [Doc -> Entity \cup {None}]
      /\ \A e \in Doc \ {d} : docs'[e] = docs[e]
      /\ docs'[d] = Written(p) \/ (docs'[d] = None /\ docs[d] = None)
      /\ op[p].doc = None \/ docs[d] # None => docs'[d] = Written(p)
      /\ docs[d] # None => Alike(docs[d].sub, s)
      /\ docs[d] = None => docs' = docs \/ (op[p].doc = None /\ d \in Unused)
      /\ op[p].doc # None => op[p].doc = d
  BY <1>1, <1>2, <1>5, <1>8 DEF TypeOK, Unused, DocFits, Saved
<1>10. TypeOK'
  BY <1>2, <1>4, <1>9 DEF TypeOK, wsVars, historyVars
<1>11. "renamed" \notin raced[s] =>
           DocsOf(s)' = IF op[p].doc = None THEN DocsOf(s) \cup {d} ELSE DocsOf(s)
  <2>1. ASSUME "renamed" \notin raced[s]
        PROVE  Written(p).sub = s /\ (docs[d] # None => docs[d].sub = s)
    BY <1>8, <1>9, <2>1 DEF Alike, Renamed
  <2> QED
    BY <1>1, <1>8, <1>9, <2>1 DEF DocsOf, Unused
<1>12. \A q \in Proc \ {p} : op[q].doc # None => (docs'[op[q].doc] # None <=> docs[op[q].doc] # None)
  BY <1>2, <1>8, <1>9 DEF Unused, TypeOK, Operation
<1>13. Single(s)'
  <2> SUFFICES ASSUME Apart(s, {"saves", "renamed"}) PROVE Single(s)'
    BY <1>4 DEF Single, Apart
  <2>1. "renamed" \notin raced[s] /\ "saves" \notin raced[s]
    BY DEF Apart
  <2> QED
    BY <1>3, <1>4, <1>5, <1>6, <1>7, <1>11, <2>1 DEF Single, Apart, IdFits
<1>14. Kept(s)'
  <2> SUFFICES ASSUME Apart(s, {"foreign", "renamed"}) PROVE Kept(s)'
    BY <1>4 DEF Kept, Apart
  <2>1. socket[s] # "new" /\ "renamed" \notin raced[s]
    BY <1>6 DEF Apart
  <2>2. DocsOf(s) # {} => DocsOf(s)' # {}
    BY <1>11, <2>1
  <2>3. ASSUME socket[s] = "connected", NEW q \in Active(s), op'[q].doc # None
        PROVE  docs'[op'[q].doc] # None
    <3>1. op[p].doc # None => docs[d] # None
      BY <1>5, <1>7, <1>9, <2>3 DEF Kept, IdFits
    <3>2. docs'[d] # None
      BY <1>2, <1>8, <1>9, <3>1
    <3>3. CASE q = p
      BY <1>3, <3>2, <3>3
    <3>4. CASE q # p
      BY <1>3, <1>5, <1>7, <1>12, <2>3, <3>4 DEF Kept, IdFits
    <3> QED
      BY <3>3, <3>4
  <2> QED
    BY <1>3, <1>4, <1>5, <2>1, <2>2, <2>3 DEF Kept, IdFits
<1>15. Removed(s)'
  <2>1. ~gone[s]
    BY <1>5, <1>7 DEF Removed, IdFits
  <2>2. Apart(s, {"saves", "saveDelete", "renamed"}) => Deleting(s) = {}
    BY <1>5, <1>6, <1>7 DEF Apart
  <2> QED
    BY <1>3, <1>4, <2>1, <2>2 DEF Removed, Apart
<1>16. raced[s] \subseteq {"foreign", "readWrite"} =>
           /\ Saving(s) = {p} /\ Deleting(s) = {}
           /\ docs'[d] = Written(p) /\ docs'[d] # None
  <2> SUFFICES ASSUME raced[s] \subseteq {"foreign", "readWrite"}
               PROVE  /\ Saving(s) = {p} /\ Deleting(s) = {}
                      /\ docs'[d] = Written(p) /\ docs'[d] # None
    OBVIOUS
  <2>1. Saving(s) = {p} /\ Deleting(s) = {}
    BY <1>5, <1>6, <1>7
  <2>2. op[p].doc # None => docs[d] # None
    BY <1>5, <1>7, <1>9 DEF Writes, IdFits
  <2> QED
    BY <1>2, <1>8, <1>9, <2>1, <2>2
<1>17. Writes(s)' /\ Cached(s)'
  <2>1. Writes(s)'
    BY <1>3, <1>4, <1>8, <1>16 DEF Writes, At
  <2>2. raced[s] \subseteq {"foreign"} => Getting(s) = {}
    BY <1>5, <1>6, <1>7
  <2>3. Cached(s)'
    BY <1>3, <1>4, <1>16, <2>2 DEF Cached
  <2> QED
    BY <2>1, <2>3
<1>18. Roomed(s)'
  <2> SUFFICES ASSUME raced[s] \subseteq {"readWrite"} PROVE Roomed(s)'
    BY <1>4 DEF Roomed
  <2>1. Saving(s) = {p} /\ Deleting(s) = {} /\ "renamed" \notin raced[s]
    BY <1>16
  <2>2. op[p].kind # "connect" => op[p].kind = "reconnect"
    BY <1>6 DEF Saves
  <2>3. op[p].kind = "connect" =>
            /\ ~op[p].listen /\ s \notin room /\ op[p].doc = None /\ DocsOf(s) = {}
    BY <1>5, <2>1 DEF Roomed, IdFits
  <2>4. op[p].kind = "connect" => s \notin room /\ ~Stored(s, TRUE)'
    <3>1. op[p].kind = "connect" => DocsOf(s)' = {d} /\ ~docs'[d].listen
      BY <1>8, <1>11, <1>16, <2>1, <2>3
    <3> QED
      BY <2>3, <3>1 DEF Stored
  <2>5. op'[p].kind = op[p].kind /\ op'[p].step = "reread" /\ op'[p].doc # None
        /\ op'[p].listen = op[p].listen
    BY <1>1, <1>3
  <2>6. Saving(s)' = {p} /\ Deleting(s)' = {}
    BY <1>3, <2>1
  <2> QED
    BY <1>4, <2>2, <2>3, <2>4, <2>5, <2>6 DEF Roomed
<1>19. Expires(s)'
  BY <1>3, <1>4, <1>5 DEF Expires, At, IdFits
<1>20. IdFits(s)'
  BY <1>4, <1>5, <1>13, <1>14, <1>15, <1>17, <1>18, <1>19 DEF IdFits
<1>21. OpFits(o)'
  BY <1>1, <1>4, <1>6, <1>8 DEF OpFits, Alike, Renamed
<1>22. DocFits(o)'
  BY <1>4, <1>8, <1>9 DEF DocFits, Alike, Renamed
<1>23. StepOf(p, s, o)
  <2>1. \A e \in Doc : docs'[e] # docs[e] =>
            /\ docs[e] # None => Alike(docs[e].sub, s)
            /\ (docs[e] # None => Alike(docs[e].sub, s))'
            /\ docs[e] = None => \A q \in Proc : op[q].doc # e
    BY <1>4, <1>8, <1>9 DEF Unused, Alike, Renamed
  <2> QED
    BY <1>4, <2>1 DEF StepOf
<1> QED
  BY <1>4, <1>5, <1>10, <1>20, <1>21, <1>22, <1>23, OperationMoves

(* A deletion removes the document it found. *)
LEMMA EraseKeepsInv ==
    ASSUME SubscriptionsInv, NEW p \in Proc, NEW s \in Sub, NEW o \in Operation,
           op[p].step = "erase", op[p].sub = s,
           op' = [op EXCEPT ![p] = o], UNCHANGED <<cache, wsVars, historyVars, listed>>,
           o.sub = s, o.kind = op[p].kind, o.step = "uncache", o.doc = op[p].doc,
           docs' = IF o.doc = None THEN docs ELSE [docs EXCEPT ![o.doc] = None]
    PROVE  SubscriptionsInv'
<1>1. None \notin Sub \cup Doc \cup Entity \cup Entry
  BY SubscriptionAssumption
<1>2. TypeOK /\ op[p].step # "idle" /\ o.step # "idle" /\ op[p].step \notin {"idle", "keys", "findMany"}
  BY DEF SubscriptionsInv
<1>3. /\ op'[p] = o /\ \A q \in Proc \ {p} : op'[q] = op[q]
      /\ Active(s)' = Active(s) /\ Saving(s)' = Saving(s) /\ Deleting(s)' = Deleting(s)
      /\ Getting(s)' = Getting(s)
  <2>1. op' = [op EXCEPT ![p] = o] /\ op[p].sub = s /\ o.sub = s /\ o.kind = op[p].kind
    OBVIOUS
  <2> QED
    BY <1>2, <2>1, AfterMove
<1>4. /\ cache' = cache /\ raced' = raced /\ gone' = gone /\ socket' = socket
      /\ room' = room /\ announced' = announced
  BY DEF wsVars, historyVars
<1>5. /\ OpFits(op[p]) /\ DocFits(op[p]) /\ IdFits(s) /\ op[p] \in Operation
      /\ \A q \in Active(s) \ {p} :
            /\ op[p].kind \in Deletes /\ op[q].kind \in Saves => "saveDelete" \in raced[s]
            /\ op[p].kind # "get" /\ op[q].kind = "get" => "readWrite" \in raced[s]
      /\ \A q \in Proc \ {p} : op[q].sub = s =>
            Race(o.kind, op[q].kind) \cup Race(op[q].kind, o.kind) \subseteq raced[s]
  BY <1>2, InProgress
<1>6. /\ op[p].kind \in Deletes /\ op[p].kind \notin Saves /\ op[p].kind # "get"
      /\ op[p].kind = "remove" => "foreign" \in raced[s]
      /\ op[p].kind # "remove" => socket[s] = "closed"
  BY <1>2, <1>5 DEF OpFits, Idle, Saves, Deletes
<1>7. /\ Saving(s) \cup Deleting(s) \cup Getting(s) \subseteq Active(s) /\ Active(s) \subseteq Proc
      /\ p \in Active(s) /\ p \in Deleting(s) /\ p \notin Saving(s) /\ p \notin Getting(s)
      /\ \A q \in Saving(s) : op[q].kind \in Saves
      /\ \A q \in Getting(s) : op[q].kind = "get"
  BY <1>2, <1>6 DEF Saving, Deleting, Getting, Active
<1>8. /\ docs' \in [Doc -> Entity \cup {None}]
      /\ \A e \in Doc : docs'[e] = IF e = o.doc THEN None ELSE docs[e]
      /\ o.doc # None => docs[o.doc] = None \/ Alike(docs[o.doc].sub, s)
  BY <1>1, <1>2, <1>5 DEF TypeOK, DocFits, Operation
<1>9. TypeOK'
  BY <1>2, <1>4, <1>8 DEF TypeOK, wsVars, historyVars
<1>10. DocsOf(s)' = DocsOf(s) \ {o.doc} /\ \A e \in DocsOf(s)' : docs'[e] = docs[e]
  BY <1>8 DEF DocsOf
<1>11. Single(s)'
  BY <1>3, <1>4, <1>5, <1>7, <1>10 DEF Single, Apart, IdFits
<1>12. Kept(s)'
  BY <1>3, <1>4, <1>5, <1>6, <1>10 DEF Kept, Apart, IdFits, Deletes
<1>13. Apart(s, {"saves", "saveDelete", "renamed"}) => DocsOf(s)' = {}
  BY <1>5, <1>7, <1>10 DEF Removed, IdFits
<1>14. Removed(s)'
  BY <1>3, <1>4, <1>5, <1>7, <1>13 DEF Removed, Apart, IdFits
<1>15. raced[s] \subseteq {"foreign", "readWrite"} => Saving(s) = {}
  BY <1>5, <1>6, <1>7
<1>16. Writes(s)' /\ Cached(s)'
  <2>1. raced[s] \subseteq {"foreign"} => Getting(s) = {}
    BY <1>5, <1>6, <1>7
  <2> QED
    BY <1>3, <1>4, <1>7, <1>15, <2>1 DEF Writes, Cached
<1>17. Roomed(s)'
  <2> SUFFICES ASSUME raced[s] \subseteq {"readWrite"} PROVE Roomed(s)'
    BY <1>4 DEF Roomed
  <2>1. Saving(s)' = {} /\ DocsOf(s)' = {}
    BY <1>3, <1>13, <1>15 DEF Apart
  <2>2. s \notin room
    BY <1>5, <1>7 DEF Roomed, IdFits
  <2> QED
    BY <1>3, <1>4, <2>1, <2>2 DEF Roomed, Stored
<1>18. Expires(s)'
  BY <1>3, <1>4, <1>5 DEF Expires, At, IdFits
<1>19. IdFits(s)'
  BY <1>4, <1>5, <1>11, <1>12, <1>14, <1>16, <1>17, <1>18 DEF IdFits
<1>20. OpFits(o)' /\ DocFits(o)'
  BY <1>1, <1>4, <1>5, <1>6, <1>8 DEF OpFits, DocFits, Deletes, Saves, Operation
<1>21. StepOf(p, s, o)
  BY <1>4, <1>8 DEF StepOf
<1> QED
  BY <1>4, <1>5, <1>9, <1>19, <1>20, <1>21, OperationMoves

(* Steps on the cache: an entry is set, gets its time to live, or goes. *)
LEMMA CachingKeepsInv ==
    ASSUME SubscriptionsInv, NEW p \in Proc, NEW s \in Sub, NEW o \in Operation,
           NEW entry \in Entry \cup {None},
           op[p].step \in {"cache", "expire", "uncache"}, op[p].sub = s,
           op' = [op EXCEPT ![p] = o], UNCHANGED <<docs, wsVars, historyVars, listed>>,
           cache' = [cache EXCEPT ![s] = entry],
           o.sub = s, o.as = op[p].as, o.kind = op[p].kind, o.doc = op[p].doc, o.listen = op[p].listen,
           \/ op[p].step = "cache" /\ o.step = "expire" /\ entry # None /\ entry.listen = op[p].listen
           \/ /\ op[p].step = "expire" /\ o.step = "return"
              /\ cache[s] = None <=> entry = None
              /\ cache[s] # None => entry.ttl /\ entry.listen = cache[s].listen
           \/ op[p].step = "uncache" /\ o.step = "return" /\ entry = None
    PROVE  SubscriptionsInv'
<1>1. None \notin Sub \cup Doc \cup Entity \cup Entry
  BY SubscriptionAssumption
<1>2. TypeOK /\ op[p].step # "idle" /\ o.step # "idle" /\ op[p].step \notin {"idle", "keys", "findMany"}
  BY DEF SubscriptionsInv
<1>3. /\ op'[p] = o /\ \A q \in Proc \ {p} : op'[q] = op[q]
      /\ Active(s)' = Active(s) /\ Saving(s)' = Saving(s) /\ Deleting(s)' = Deleting(s)
      /\ Getting(s)' = Getting(s)
  <2>1. op' = [op EXCEPT ![p] = o] /\ op[p].sub = s /\ o.sub = s /\ o.kind = op[p].kind
    OBVIOUS
  <2> QED
    BY <1>2, <2>1, AfterMove
<1>4. /\ docs' = docs /\ raced' = raced /\ gone' = gone /\ socket' = socket
      /\ room' = room /\ announced' = announced /\ DocsOf(s)' = DocsOf(s)
      /\ cache' \in [Sub -> Entry \cup {None}] /\ cache'[s] = entry
      /\ \A t \in Sub \ {s} : cache'[t] = cache[t]
  BY <1>2 DEF wsVars, historyVars, DocsOf, TypeOK
<1>5. /\ OpFits(op[p]) /\ DocFits(op[p]) /\ IdFits(s) /\ op[p] \in Operation
      /\ \A q \in Active(s) \ {p} :
            /\ op[p].kind = "get" /\ op[q].kind # "get" => "readWrite" \in raced[s]
            /\ op[p].kind \in Saves /\ op[q].kind \in Deletes => "saveDelete" \in raced[s]
      /\ \A q \in Proc \ {p} : op[q].sub = s =>
            Race(o.kind, op[q].kind) \cup Race(op[q].kind, o.kind) \subseteq raced[s]
  BY <1>2, InProgress
<1>6. /\ op[p].step = "uncache" => op[p].kind \in Deletes
      /\ op[p].step \in {"cache", "expire"} =>
            op[p].kind = "get" \/ (op[p].kind \in Saves /\ op[p].doc # None)
      /\ op[p].kind \in Saves => op[p].kind \notin Deletes /\ op[p].kind # "get"
      /\ op[p].kind \in Deletes => op[p].kind # "get"
  BY <1>2, <1>5 DEF OpFits, Idle, Saves, Deletes
<1>7. /\ Saving(s) \cup Deleting(s) \cup Getting(s) \subseteq Active(s) /\ Active(s) \subseteq Proc
      /\ p \in Active(s)
      /\ p \in Saving(s) <=> op[p].kind \in Saves
      /\ p \in Deleting(s) <=> op[p].kind \in Deletes
      /\ p \in Getting(s) <=> op[p].kind = "get"
      /\ \A q \in Deleting(s) : op[q].kind \in Deletes /\ op[q].kind # "get"
  BY <1>2 DEF Saving, Deleting, Getting, Active, Deletes
<1>8. TypeOK'
  BY <1>2, <1>4 DEF TypeOK, wsVars, historyVars
<1>9. Single(s)'
  BY <1>3, <1>4, <1>5, <1>7 DEF Single, Apart, IdFits
<1>10. Kept(s)'
  BY <1>3, <1>4, <1>5, <1>7 DEF Kept, Apart, IdFits
<1>11. Removed(s)'
  <2> SUFFICES ASSUME Apart(s, {"saves", "saveDelete", "renamed"}) PROVE Removed(s)'
    BY <1>3, <1>4, <1>5 DEF Removed, Apart, IdFits
  <2>0. "saveDelete" \notin raced[s]
    BY DEF Apart
  <2>1. \A q \in Deleting(s) :
            /\ op'[q].step = "erase" => DocsOf(s) \subseteq {op'[q].doc}
            /\ op'[q].step \in {"uncache", "return"} => DocsOf(s) = {}
    BY <1>3, <1>5, <1>6, <1>7 DEF Removed, IdFits
  <2>2. ASSUME "readWrite" \notin raced[s], gone[s]
        PROVE  entry = None /\ \A q \in Getting(s) : op'[q].step \in {"lookup", "fetch"}
    BY <1>3, <1>5, <1>6, <1>7, <2>0, <2>2 DEF Removed, IdFits
  <2>3. ASSUME "readWrite" \notin raced[s], NEW q \in Deleting(s), op'[q].step = "return"
        PROVE  entry = None
    BY <1>3, <1>5, <1>6, <1>7, <2>0, <2>3 DEF Removed, IdFits
  <2> QED
    BY <1>3, <1>4, <1>5, <2>1, <2>2, <2>3 DEF Removed, IdFits
<1>12. Writes(s)'
  BY <1>3, <1>4, <1>5, <1>7 DEF Writes, At, IdFits
<1>13. Cached(s)'
  <2> SUFFICES ASSUME raced[s] \subseteq {"foreign"} PROVE Cached(s)'
    BY <1>4 DEF Cached
  <2>1. ASSUME op[p].step = "cache"
        PROVE  Stored(s, entry.listen)
    <3>1. CASE op[p].kind = "get"
      BY <1>5, <1>7, <2>1, <3>1 DEF Cached, IdFits
    <3>2. CASE op[p].kind \in Saves
      <4>1. op[p].doc \in Doc /\ docs[op[p].doc] # None /\ docs[op[p].doc].listen = op[p].listen
        BY <1>5, <1>6, <1>7, <2>1, <3>2 DEF Writes, At, IdFits, Operation
      <4>2. docs[op[p].doc].sub = s
        BY <1>5, <1>6, <2>1, <3>2, <4>1 DEF DocFits, Alike, Renamed
      <4>3. op[p].doc \in DocsOf(s)
        BY <4>1, <4>2 DEF DocsOf
      <4> QED
        BY <2>1, <4>1, <4>3 DEF Stored
    <3> QED
      BY <1>6, <2>1, <3>1, <3>2
  <2>2. \A q \in Getting(s) : op'[q].step = "cache" => Stored(s, op'[q].listen)
    BY <1>3, <1>5, <1>7 DEF Cached, IdFits
  <2>3. \/ entry = None
        \/ Stored(s, entry.listen)
        \/ \E q \in Saving(s) : op'[q].step \in {"reread", "cache"}
        \/ \E q \in Deleting(s) : op'[q].step = "uncache"
    BY <1>3, <1>5, <1>6, <1>7, <2>1 DEF Cached, IdFits
  <2> QED
    BY <1>3, <1>4, <2>2, <2>3 DEF Cached, Stored
<1>14. Roomed(s)'
  <2> SUFFICES ASSUME raced[s] \subseteq {"readWrite"} PROVE Roomed(s)'
    BY <1>4 DEF Roomed
  <2>1. /\ \A q \in Deleting(s) : s \notin room
        /\ \A q \in Saving(s) : op[q].kind = "connect" =>
              ~op[q].listen /\ s \notin room /\ (op[q].doc = None => DocsOf(s) = {})
                            /\ (op[q].step = "write" => op[q].doc = None)
        /\ \/ s \in room <=> Stored(s, TRUE)
           \/ \E q \in Saving(s) : op[q].kind = "reconnect" /\ op[q].step \notin {"find", "write"}
           \/ \E q \in Deleting(s) : op[q].step \in {"find", "erase"}
    BY <1>5 DEF Roomed, IdFits
  <2>2. o.kind = op[p].kind /\ o.doc = op[p].doc /\ o.listen = op[p].listen
        /\ o.step \in {"expire", "return"}
    OBVIOUS
  <2>3. ASSUME NEW q \in Saving(s), op'[q].kind = "connect"
        PROVE  ~op'[q].listen /\ s \notin room /\ (op'[q].doc = None => DocsOf(s) = {})
                              /\ (op'[q].step = "write" => op'[q].doc = None)
    <3>1. CASE q # p
      BY <1>3, <1>7, <2>1, <2>3, <3>1
    <3>2. CASE q = p
      BY <1>3, <2>1, <2>2, <2>3, <3>2
    <3> QED
      BY <3>1, <3>2
  <2>4. \A q \in Saving(s) : op[q].kind = "reconnect" /\ op[q].step \notin {"find", "write"} =>
            op'[q].kind = "reconnect" /\ op'[q].step \notin {"find", "write"}
    BY <1>3, <1>7, <2>2
  <2>5. \A q \in Deleting(s) : op[q].step \in {"find", "erase"} => op'[q].step \in {"find", "erase"}
    <3>1. op[p].step \notin {"find", "erase"}
      OBVIOUS
    <3> QED
      BY <1>3, <1>7, <3>1
  <2> QED
    BY <1>3, <1>4, <2>1, <2>3, <2>4, <2>5 DEF Roomed, Stored
<1>15. Expires(s)'
  BY <1>3, <1>4, <1>5, <1>7 DEF Expires, At, IdFits
<1>16. IdFits(s)'
  BY <1>4, <1>5, <1>9, <1>10, <1>11, <1>12, <1>13, <1>14, <1>15 DEF IdFits
<1>17. OpFits(o)' /\ DocFits(o)'
  BY <1>2, <1>4, <1>5, <1>6 DEF OpFits, DocFits, Alike, Renamed, Idle, Saves, Deletes
<1>18. StepOf(p, s, o)
  BY <1>4 DEF StepOf
<1> QED
  BY <1>4, <1>5, <1>8, <1>16, <1>17, <1>18, OperationMoves

(***************************************************************************)
(* Operations end, and steps without an id.                                *)
(***************************************************************************)

(* An operation of s ends: with an effect on room and announcements when it
   returns to its caller, noted as a failure when a call throws.           *)
LEMMA EndKeepsInv ==
    ASSUME SubscriptionsInv, TypeOK', NEW p \in Proc, NEW s \in Sub,
           op[p].step \notin {"idle", "keys", "findMany"}, op[p].sub = s,
           Finish(p) \/ Throw(p) \/ (Fetch(p) /\ Return(p))
    PROVE  SubscriptionsInv'
<1>1. None \notin Sub \cup Doc \cup Entity \cup Entry
  BY SubscriptionAssumption
<1>2. TypeOK /\ op' = [op EXCEPT ![p] = Idle]
  BY DEF SubscriptionsInv, Finish, Throw, Return
<1>3. /\ op'[p] = Idle /\ \A q \in Proc \ {p} : op'[q] = op[q]
      /\ Active(s)' = Active(s) \ {p} /\ Saving(s)' = Saving(s) \ {p}
      /\ Deleting(s)' = Deleting(s) \ {p} /\ Getting(s)' = Getting(s) \ {p}
  BY <1>2, AfterReturn
<1>4. docs' = docs /\ cache' = cache /\ socket' = socket /\ DocsOf(s)' = DocsOf(s)
  BY DEF Finish, Throw, Fetch, wsVars, DocsOf
<1>5. /\ OpFits(op[p]) /\ DocFits(op[p]) /\ IdFits(s) /\ op[p] \in Operation
      /\ \A q \in Active(s) \ {p} :
            /\ op[p].kind \in Saves /\ op[q].kind \in Saves => "saves" \in raced[s]
            /\ op[p].kind \in Saves /\ op[q].kind \in Deletes => "saveDelete" \in raced[s]
            /\ op[p].kind # "get" /\ op[q].kind = "get" => "readWrite" \in raced[s]
  BY InProgress
<1>6. /\ op[p].kind \in Saves => op[p].kind \notin Deletes /\ op[p].kind # "get"
      /\ op[p].kind \in Deletes => op[p].kind # "get"
      /\ op[p].kind \in {"connect", "reconnect"} => op[p].kind \in Saves /\ socket[s] # "new"
      /\ op[p].kind \in Saves /\ op[p].step = "return" => op[p].doc # None
  BY <1>5 DEF OpFits, Idle, Saves, Deletes
<1>7. /\ Saving(s) \cup Deleting(s) \cup Getting(s) \subseteq Active(s) /\ Active(s) \subseteq Proc
      /\ p \in Active(s)
      /\ p \in Saving(s) <=> op[p].kind \in Saves
      /\ p \in Deleting(s) <=> op[p].kind \in Deletes
      /\ p \in Getting(s) <=> op[p].kind = "get"
      /\ \A q \in Saving(s) : op[q].kind \in Saves
      /\ \A q \in Deleting(s) : op[q].kind \in Deletes
      /\ \A q \in Getting(s) : op[q].kind = "get"
  BY DEF Saving, Deleting, Getting, Active
<1>8. /\ raced[s] \subseteq raced'[s]
      /\ raced'[s] = raced[s] \/ "fault" \in raced'[s]
      /\ op[p].step = "expire" => "unexpired" \in raced'[s]
      /\ \A t \in Sub \ {s} : raced'[t] = raced[t]
      /\ ~Throw(p) => raced' = raced
      /\ Throw(p) => "fault" \in raced'[s]
  <2>1. CASE Throw(p)
    BY <1>2, <2>1 DEF Throw, TypeOK, Races, At
  <2>2. CASE ~Throw(p)
    <3>1. raced' = raced
      BY <2>2 DEF Finish, Fetch, historyVars
    <3>2. op[p].step # "expire"
      BY <2>2 DEF Finish, Fetch, At
    <3> QED
      BY <2>2, <3>1, <3>2
  <2> QED
    BY <2>1, <2>2
<1>9. /\ Finish(p) => NoteGone(p) /\ op[p].step = "return"
      /\ ~Finish(p) => gone' = gone /\ room' = room /\ announced' = announced
      /\ ~Finish(p) /\ ~Throw(p) => op[p].step = "fetch"
  BY DEF Finish, Throw, Fetch, At, historyVars, wsVars
<1>10. /\ \A t \in Sub \ {s} : gone'[t] = gone[t]
       /\ gone'[s] => gone[s] \/ (op[p].kind \in Deletes /\ op[p].step = "return" /\ Saving(s) = {})
  <2>1. CASE ~Finish(p)
    BY <1>9, <2>1
  <2>2. CASE Finish(p)
    <3>1. gone' = [gone EXCEPT ![s] =
              @ \/ (op[p].kind \in Deletes /\ \A q \in Active(s) : op[q].kind \notin Saves)]
      BY <2>2 DEF Finish, NoteGone
    <3>2. /\ \A t \in Sub \ {s} : gone'[t] = gone[t]
          /\ gone'[s] => gone[s] \/ (op[p].kind \in Deletes /\ \A q \in Active(s) : op[q].kind \notin Saves)
      BY <1>2, <3>1 DEF TypeOK
    <3>3. (\A q \in Active(s) : op[q].kind \notin Saves) => Saving(s) = {}
      BY DEF Saving
    <3> QED
      BY <1>9, <2>2, <3>2, <3>3
  <2> QED
    BY <2>1, <2>2
<1>11. /\ \A t \in Sub \ {s} : (t \in room <=> t \in room') /\ (t \in announced <=> t \in announced')
       /\ s \in announced' => s \in announced \/ (op[p].kind = "connect" /\ op[p].step = "return")
       /\ ~(op[p].kind = "reconnect" /\ op[p].step = "return") => (s \in room <=> s \in room')
       /\ op[p].kind = "reconnect" /\ op[p].step = "return" /\ ~Throw(p) => (s \in room' <=> op[p].listen)
  <2>1. CASE ~Finish(p)
    <3>1. room' = room /\ announced' = announced /\ (~Throw(p) => op[p].step = "fetch")
      BY <1>9, <2>1
    <3> QED
      BY <3>1
  <2>2. CASE Finish(p)
    <3>1. /\ room' = IF op[p].kind # "reconnect" THEN room
                     ELSE IF op[p].listen THEN room \cup {s} ELSE room \ {s}
          /\ announced' = IF op[p].kind = "connect" THEN announced \cup {s} ELSE announced
      BY <2>2 DEF Finish
    <3> QED
      BY <1>9, <2>2, <3>1
  <2> QED
    BY <2>1, <2>2
<1>12. Single(s)'
  BY <1>3, <1>4, <1>5, <1>7, <1>8 DEF Single, Apart, IdFits
<1>13. Kept(s)'
  <2>1. ASSUME Apart(s, {"foreign", "renamed"}), socket[s] = "connected", op[p].doc # None
        PROVE  DocsOf(s) # {}
    <3>1. op[p].doc \in Doc /\ docs[op[p].doc] # None
      BY <1>5, <1>7, <2>1 DEF Kept, IdFits, Operation
    <3>2. docs[op[p].doc].sub = s
      BY <1>5, <2>1, <3>1 DEF DocFits, Alike, Renamed, Apart
    <3> QED
      BY <3>1, <3>2 DEF DocsOf
  <2>2. Apart(s, {"foreign", "renamed"})' => Apart(s, {"foreign", "renamed"})
    BY <1>8 DEF Apart
  <2> QED
    BY <1>3, <1>4, <1>5, <1>6, <1>7, <1>10, <1>11, <2>1, <2>2 DEF Kept, IdFits
<1>14. Removed(s)'
  <2>1. gone'[s] => Saving(s)' = {}
    BY <1>3, <1>5, <1>10, <1>11 DEF Removed, IdFits
  <2> SUFFICES ASSUME Apart(s, {"saves", "saveDelete", "renamed"}) PROVE Removed(s)'
    BY <1>8, <2>1 DEF Removed, Apart
  <2>2. gone'[s] => DocsOf(s) = {}
    BY <1>5, <1>7, <1>10, <1>11 DEF Removed, IdFits
  <2>3. \A q \in Deleting(s) \ {p} :
            /\ op'[q].step = "erase" => DocsOf(s) \subseteq {op'[q].doc}
            /\ op'[q].step \in {"uncache", "return"} => DocsOf(s) = {}
            /\ "readWrite" \notin raced[s] /\ op'[q].step = "return" => cache[s] = None
    BY <1>3, <1>5, <1>7 DEF Removed, IdFits
  <2>4. ASSUME "readWrite" \notin raced[s], gone'[s]
        PROVE  cache[s] = None /\ \A q \in Getting(s) \ {p} : op'[q].step \in {"lookup", "fetch"}
    <3>1. CASE gone[s]
      BY <1>3, <1>5, <1>7, <2>4, <3>1 DEF Removed, IdFits
    <3>2. CASE op[p].kind \in Deletes /\ op[p].step = "return"
      BY <1>5, <1>6, <1>7, <2>4, <3>2 DEF Removed, IdFits
    <3> QED
      BY <1>10, <1>11, <2>4, <3>1, <3>2
  <2> QED
    BY <1>3, <1>4, <1>8, <2>1, <2>2, <2>3, <2>4 DEF Removed
<1>15. Writes(s)'
  <2> SUFFICES ASSUME raced'[s] \subseteq {"foreign", "readWrite"} PROVE Writes(s)'
    BY DEF Writes
  <2> QED
    BY <1>3, <1>4, <1>5, <1>7, <1>8 DEF Writes, At, IdFits
<1>16. Cached(s)'
  <2> SUFFICES ASSUME raced'[s] \subseteq {"foreign"} PROVE Cached(s)'
    BY DEF Cached
  <2>1. raced[s] \subseteq {"foreign"} /\ op[p].step \in {"return", "fetch"}
    BY <1>8, <1>9
  <2> QED
    BY <1>3, <1>4, <1>5, <1>7, <2>1 DEF Cached, Stored, IdFits
<1>17. Roomed(s)'
  <2> SUFFICES ASSUME raced'[s] \subseteq {"readWrite"} PROVE Roomed(s)'
    BY DEF Roomed
  <2>1. raced[s] \subseteq {"readWrite"} /\ op[p].step \in {"return", "fetch"} /\ ~Throw(p)
    BY <1>8, <1>9
  <2>2. CASE op[p].kind = "reconnect" /\ op[p].step = "return"
    <3>1. Saving(s) = {p} /\ Deleting(s) = {}
      BY <1>5, <1>6, <1>7, <2>1, <2>2
    <3>2. op[p].doc \in Doc /\ docs[op[p].doc] # None /\ docs[op[p].doc].listen = op[p].listen
      BY <1>5, <1>6, <1>7, <2>1, <2>2 DEF Writes, At, IdFits, Operation
    <3>3. docs[op[p].doc].sub = s
      BY <1>5, <1>6, <2>1, <2>2, <3>2 DEF DocFits, Alike, Renamed
    <3>4. op[p].doc \in DocsOf(s) /\ op[p].listen \in BOOLEAN
      BY <1>5, <3>2, <3>3 DEF DocsOf, Operation
    <3>5. \A d \in DocsOf(s) : d = op[p].doc
      BY <1>5, <2>1, <3>4 DEF Single, Apart, IdFits
    <3>6. Stored(s, TRUE) <=> op[p].listen
      BY <3>2, <3>4, <3>5 DEF Stored
    <3> QED
      BY <1>3, <1>4, <1>10, <1>11, <2>1, <2>2, <3>1, <3>6 DEF Roomed, Stored
  <2>3. CASE ~(op[p].kind = "reconnect" /\ op[p].step = "return")
    <3>1. s \in room <=> s \in room'
      BY <1>10, <1>11, <2>3
    <3>2. op[p].kind = "reconnect" => FALSE
      BY <1>5, <2>1, <2>3 DEF OpFits, Idle, Saves, Deletes
    <3> QED
      BY <1>3, <1>4, <1>5, <1>7, <2>1, <3>1, <3>2 DEF Roomed, Stored, IdFits
  <2> QED
    BY <2>2, <2>3
<1>18. Expires(s)'
  <2> SUFFICES ASSUME "unexpired" \notin raced'[s] PROVE Expires(s)'
    BY DEF Expires
  <2>1. "unexpired" \notin raced[s] /\ op[p].step # "expire"
    BY <1>8
  <2>2. \A q \in Active(s) : op[q].step = "expire" => q \in Active(s)' /\ op'[q] = op[q]
    BY <1>3, <1>7, <2>1
  <2> QED
    BY <1>4, <1>5, <2>1, <2>2 DEF Expires, At, IdFits
<1>19. IdFits(s)'
  BY <1>4, <1>5, <1>6, <1>10, <1>11, <1>12, <1>13, <1>14, <1>15, <1>16, <1>17, <1>18 DEF IdFits
<1>20. Idle \in Operation /\ Idle.sub = None /\ Idle.doc = None
  BY DEF Idle, Operation, Kinds, Steps
<1>21. OpFits(Idle)' /\ DocFits(Idle)'
  BY <1>20 DEF OpFits, DocFits
<1>22. StepOf(p, s, Idle)
  <2>1. op[p].sub \in {s, None} /\ Idle.sub \in {s, None}
    BY <1>20
  <2>2. \A t \in Sub \ {s} :
            /\ cache'[t] = cache[t] /\ socket'[t] = socket[t] /\ raced'[t] = raced[t]
            /\ gone'[t] = gone[t]
            /\ (t \in room <=> t \in room') /\ (t \in announced <=> t \in announced')
    BY <1>4, <1>8, <1>10, <1>11
  <2>3. \A d \in Doc : docs'[d] = docs[d]
    BY <1>4
  <2> QED
    BY <1>2, <1>4, <1>8, <2>1, <2>2, <2>3 DEF StepOf
<1> QED
  BY <1>1, <1>19, <1>20, <1>21, <1>22, OperationMoves

(* A time to live passes. *)
LEMMA ElapseKeepsInv ==
    ASSUME SubscriptionsInv, NEW s \in Sub, Elapse(s)
    PROVE  SubscriptionsInv'
<1>1. /\ docs' = docs /\ op' = op /\ raced' = raced /\ gone' = gone /\ socket' = socket
      /\ room' = room /\ announced' = announced
  BY DEF Elapse, wsVars, historyVars
<1>2. TypeOK'
  BY DEF SubscriptionsInv, TypeOK, Elapse, wsVars, historyVars
<1>3. (\A p \in Proc : OpFits(op[p]) /\ DocFits(op[p]))' /\ RacesAreNoted'
  BY <1>1 DEF SubscriptionsInv, OpFits, DocFits, RacesAreNoted, Alike, Renamed
<1>4. ASSUME NEW t \in Sub
      PROVE  IdFits(t)'
  <2>1. CASE t # s
    <3>1. cache'[t] = cache[t]
      BY <2>1 DEF Elapse, SubscriptionsInv, TypeOK
    <3>2. SameFor(t)
      BY <1>1, <3>1 DEF SameFor
    <3> QED
      BY <3>2, Untouched DEF SubscriptionsInv
  <2>2. CASE t = s
    <3>1. cache'[s] = None /\ IdFits(s)
      BY DEF Elapse, SubscriptionsInv, TypeOK
    <3>2. /\ DocsOf(s)' = DocsOf(s) /\ Active(s)' = Active(s) /\ Saving(s)' = Saving(s)
          /\ Deleting(s)' = Deleting(s) /\ Getting(s)' = Getting(s)
      BY <1>1 DEF DocsOf, Active, Saving, Deleting, Getting
    <3>3. Single(s)' /\ Kept(s)' /\ Removed(s)'
      BY <1>1, <3>1, <3>2 DEF Single, Kept, Removed, Apart, IdFits
    <3>4. Writes(s)' /\ Cached(s)' /\ Roomed(s)' /\ Expires(s)'
      BY <1>1, <3>1, <3>2 DEF Writes, At, Cached, Roomed, Expires, Stored, IdFits
    <3> QED
      BY <1>1, <2>2, <3>1, <3>3, <3>4 DEF IdFits
  <2> QED
    BY <2>1, <2>2
<1> QED
  BY <1>2, <1>3, <1>4 DEF SubscriptionsInv

(* list() touches nothing the invariant speaks of, whether it goes on, returns
   or throws.                                                              *)
LEMMA ListingKeepsInv ==
    ASSUME SubscriptionsInv, TypeOK', NEW p \in Proc, NEW o \in Operation,
           op' = [op EXCEPT ![p] = o], UNCHANGED <<docs, cache, wsVars, gone>>,
           \A s \in Sub : raced'[s] = raced[s],
           op[p].sub = None, o.sub = None, OpFits(o), o.doc = None
    PROVE  SubscriptionsInv'
<1>1. None \notin Sub \cup Doc \cup Entity \cup Entry
  BY SubscriptionAssumption
<1>2. /\ docs' = docs /\ cache' = cache /\ gone' = gone /\ socket' = socket
      /\ room' = room /\ announced' = announced
  BY DEF wsVars
<1>3. op'[p] = o /\ \A q \in Proc \ {p} : op'[q] = op[q]
  BY DEF SubscriptionsInv, TypeOK
<1>4. ASSUME NEW q \in Proc
      PROVE  OpFits(op[q])' /\ DocFits(op[q])'
  <2>1. OpFits(op'[q]) /\ DocFits(op'[q])
    BY <1>3 DEF SubscriptionsInv, DocFits
  <2>2. \A x, y : Alike(x, y) => Alike(x, y)'
    BY DEF Alike, Renamed
  <2> QED
    BY <1>2, <2>1, <2>2 DEF OpFits, DocFits
<1>5. RacesAreNoted'
  BY <1>1, <1>3 DEF SubscriptionsInv, RacesAreNoted
<1>6. ASSUME NEW s \in Sub
      PROVE  IdFits(s)'
  <2>1. SameFor(s)
    BY <1>1, <1>2, <1>3 DEF SameFor
  <2> QED
    BY <2>1, Untouched DEF SubscriptionsInv
<1> QED
  BY <1>4, <1>5, <1>6 DEF SubscriptionsInv

(***************************************************************************)
(* Every step keeps the invariant.                                         *)
(***************************************************************************)
LEMMA ReadingKeepsInv ==
    ASSUME SubscriptionsInv, NEW p \in Proc, Find(p) \/ Reread(p) \/ Lookup(p) \/ Fetch(p)
    PROVE  SubscriptionsInv'
<1>1. None \notin Sub \cup Doc \cup Entity \cup Entry
  BY SubscriptionAssumption
<1>2. op[p].step \in {"find", "reread", "lookup", "fetch"} /\ TypeOK
  BY DEF Find, Reread, Lookup, Fetch, At, SubscriptionsInv
<1>3. /\ op[p] \in Operation /\ OpFits(op[p]) /\ DocFits(op[p]) /\ op[p].sub \in Sub
      /\ op[p].step \notin {"idle", "keys", "findMany"} /\ op[p].step # "expire"
  BY <1>2, InProgress
<1>4. PICK s \in Sub : s = op[p].sub
  BY <1>3
<1>5. UNCHANGED <<docs, cache, wsVars, historyVars, listed>>
  BY DEF Find, Reread, Lookup, Fetch
<1>6. /\ op[p].step = "find" => op[p].kind \in Saves \cup Deletes
      /\ op[p].step = "reread" => op[p].kind \in Saves /\ op[p].doc # None
      /\ op[p].step \in {"lookup", "fetch"} => op[p].kind = "get" /\ op[p].doc = None
  BY <1>2, <1>3 DEF OpFits, Idle, Saves, Deletes
<1>7. CASE Find(p)
  <2> DEFINE next == IF op[p].kind \in Saves THEN "write" ELSE "erase"
  <2>1. PICK d \in IF DocsOf(s) = {} THEN {None} ELSE DocsOf(s) :
           op' = [op EXCEPT ![p].step = next, ![p].doc = d]
    BY <1>4, <1>7 DEF Find
  <2> DEFINE o == [op[p] EXCEPT !.step = next, !.doc = d]
  <2>2. op' = [op EXCEPT ![p] = o] /\ op[p].step = "find"
    BY <1>2, <1>7, <2>1 DEF Find, At, TypeOK
  <2>3. d \in Doc \cup {None} /\ (d # None => docs[d] # None /\ docs[d].sub = s)
        /\ ((DocsOf(s) = {} /\ d = None) \/ d \in DocsOf(s))
    BY DEF DocsOf
  <2>4. next \in Steps /\ next # "idle"
        /\ next = (IF op[p].kind \in Saves THEN "write" ELSE "erase")
    BY DEF Steps
  <2> HIDE DEF next
  <2>5. /\ o \in Operation /\ o.sub = s /\ o.as = op[p].as /\ o.kind = op[p].kind
        /\ o.step = next /\ o.doc = d /\ o.listen = op[p].listen
    BY <1>3, <1>4, <2>3, <2>4 DEF Operation
  <2> HIDE DEF o
  <2>6. OpFits(o) /\ DocFits(o)
    BY <1>2, <1>3, <1>4, <1>6, <2>2, <2>3, <2>4, <2>5 DEF OpFits, DocFits, Alike, Idle, Saves, Deletes
  <2> QED
    BY <1>3, <1>4, <1>5, <1>6, <2>2, <2>3, <2>4, <2>5, <2>6, ReadKeepsInv
<1>8. CASE Reread(p)
  <2> DEFINE found == docs[op[p].doc]
             step == IF found = None THEN "return" ELSE "cache"
             listen == found # None /\ found.listen
             o == [op[p] EXCEPT !.step = step, !.listen = listen]
  <2>1. op' = [op EXCEPT ![p] = o] /\ op[p].step = "reread"
    BY <1>2, <1>8 DEF Reread, At, TypeOK
  <2>2. found \in Entity \cup {None}
    BY <1>2, <1>3, <1>6, <2>1 DEF TypeOK, Operation
  <2>3. /\ step \in {"return", "cache"} /\ step \in Steps /\ listen \in BOOLEAN
        /\ found = None => step = "return" /\ ~listen
        /\ found # None => step = "cache" /\ listen = found.listen
    BY <2>2 DEF Steps, Entity
  <2> HIDE DEF step, listen
  <2>4. /\ o \in Operation /\ o.sub = s /\ o.as = op[p].as /\ o.kind = op[p].kind
        /\ o.step = step /\ o.doc = op[p].doc /\ o.listen = listen
    BY <1>3, <1>4, <2>3 DEF Operation
  <2> HIDE DEF o
  <2>5. OpFits(o) /\ DocFits(o)
    BY <1>2, <1>3, <1>4, <1>6, <2>1, <2>3, <2>4 DEF OpFits, DocFits, Idle, Saves, Deletes
  <2> QED
    BY <1>3, <1>4, <1>5, <2>1, <2>3, <2>4, <2>5, ReadKeepsInv
<1>9. CASE Lookup(p)
  <2>1. op[p].step = "lookup" /\ cache[s] \in Entry \cup {None}
    BY <1>2, <1>9 DEF Lookup, At, TypeOK
  <2>2. CASE cache[s] # None
    <3> DEFINE o == [op[p] EXCEPT !.step = "cache", !.listen = cache[s].listen]
    <3>1. op' = [op EXCEPT ![p] = o]
      BY <1>2, <1>4, <1>9, <2>2 DEF Lookup, TypeOK
    <3>2. /\ o \in Operation /\ o.sub = s /\ o.as = op[p].as /\ o.kind = op[p].kind /\ o.step = "cache"
          /\ o.doc = op[p].doc /\ o.listen = cache[s].listen
      BY <1>3, <1>4, <2>1, <2>2 DEF Operation, Entry, Steps
    <3> HIDE DEF o
    <3>3. OpFits(o) /\ DocFits(o)
      BY <1>4, <1>6, <2>1, <3>2 DEF OpFits, DocFits
    <3> QED
      BY <1>3, <1>4, <1>5, <1>6, <2>1, <2>2, <3>1, <3>2, <3>3, ReadKeepsInv
  <2>3. CASE cache[s] = None
    <3> DEFINE o == [op[p] EXCEPT !.step = "fetch"]
    <3>1. op' = [op EXCEPT ![p] = o]
      BY <1>2, <1>4, <1>9, <2>3 DEF Lookup, Goto, TypeOK
    <3>2. /\ o \in Operation /\ o.sub = s /\ o.as = op[p].as /\ o.kind = op[p].kind /\ o.step = "fetch"
          /\ o.doc = op[p].doc
      BY <1>3, <1>4 DEF Operation, Steps
    <3> HIDE DEF o
    <3>3. OpFits(o) /\ DocFits(o)
      BY <1>4, <1>6, <2>1, <3>2 DEF OpFits, DocFits
    <3> QED
      BY <1>3, <1>4, <1>5, <1>6, <2>1, <2>3, <3>1, <3>2, <3>3, ReadKeepsInv
  <2> QED
    BY <2>2, <2>3
<1>10. CASE Fetch(p)
  <2>1. op[p].step = "fetch"
    BY <1>10 DEF Fetch, At
  <2>2. CASE Return(p)
    <3>1. TypeOK'
      BY <1>2, <1>5, <2>2 DEF TypeOK, Return, Idle, Operation, Kinds, Steps, wsVars, historyVars
    <3> QED
      BY <1>3, <1>4, <1>10, <2>2, <3>1, EndKeepsInv
  <2>3. CASE ~Return(p)
    <3>1. PICK d \in DocsOf(s) : op' = [op EXCEPT ![p].step = "cache", ![p].listen = docs[d].listen]
      BY <1>4, <1>10, <2>3 DEF Fetch
    <3> DEFINE o == [op[p] EXCEPT !.step = "cache", !.listen = docs[d].listen]
    <3>2. docs[d].listen \in BOOLEAN
      BY <1>2 DEF DocsOf, TypeOK, Entity
    <3>3. op' = [op EXCEPT ![p] = o]
      BY <1>2, <3>1 DEF TypeOK
    <3>4. /\ o \in Operation /\ o.sub = s /\ o.as = op[p].as /\ o.kind = op[p].kind /\ o.step = "cache"
          /\ o.doc = op[p].doc /\ o.listen = docs[d].listen
      BY <1>3, <1>4, <3>2 DEF Operation, Steps
    <3> HIDE DEF o
    <3>5. OpFits(o) /\ DocFits(o) /\ Stored(s, o.listen)
      BY <1>4, <1>6, <2>1, <3>4 DEF OpFits, DocFits, Stored
    <3> QED
      BY <1>3, <1>4, <1>5, <1>6, <2>1, <3>3, <3>4, <3>5, ReadKeepsInv
  <2> QED
    BY <2>2, <2>3
<1> QED
  BY <1>7, <1>8, <1>9, <1>10

LEMMA WritingKeepsInv ==
    ASSUME SubscriptionsInv, NEW p \in Proc, Insert(p) \/ Update(p) \/ Erase(p)
    PROVE  SubscriptionsInv'
<1>1. op[p].step \in {"write", "erase"} /\ TypeOK
  BY DEF Insert, Update, Erase, At, SubscriptionsInv
<1>2. /\ op[p] \in Operation /\ op[p].sub \in Sub
      /\ op[p].step \notin {"idle", "keys", "findMany"}
  BY <1>1, InProgress
<1>3. PICK s \in Sub : s = op[p].sub
  BY <1>2
<1>4. UNCHANGED <<cache, wsVars, historyVars, listed>>
  BY DEF Insert, Update, Erase
<1>5. CASE Insert(p)
  <2>1. PICK d \in Unused : /\ docs' = [docs EXCEPT ![d] = Written(p)]
                            /\ op' = [op EXCEPT ![p].step = "reread", ![p].doc = d]
    BY <1>5 DEF Insert
  <2> DEFINE o == [op[p] EXCEPT !.step = "reread", !.doc = d]
  <2>2. op' = [op EXCEPT ![p] = o] /\ op[p].step = "write" /\ op[p].doc = None /\ d \in Doc
    BY <1>1, <1>5, <2>1 DEF Insert, At, TypeOK, Unused
  <2>3. /\ o \in Operation /\ o.sub = s /\ o.as = op[p].as /\ o.kind = op[p].kind
        /\ o.step = "reread" /\ o.doc = d /\ o.listen = op[p].listen
    BY <1>2, <1>3, <2>2 DEF Operation, Steps
  <2> HIDE DEF o
  <2>4. Saved(p, d)
    BY <2>1, <2>2 DEF Saved
  <2> QED
    BY <1>3, <1>4, <2>2, <2>3, <2>4, SaveKeepsInv
<1>6. CASE Update(p)
  <2>1. /\ op[p].step = "write" /\ op[p].doc # None
        /\ docs' = [docs EXCEPT ![op[p].doc] = IF @ = None THEN None ELSE Written(p)]
        /\ op' = [op EXCEPT ![p].step = "reread"]
    BY <1>6 DEF Update, At, Goto
  <2>2. PICK d \in Doc : d = op[p].doc
    BY <1>2, <2>1 DEF Operation
  <2> DEFINE o == [op[p] EXCEPT !.step = "reread"]
  <2>3. op' = [op EXCEPT ![p] = o]
    BY <1>1, <2>1 DEF TypeOK
  <2>4. /\ o \in Operation /\ o.sub = s /\ o.as = op[p].as /\ o.kind = op[p].kind
        /\ o.step = "reread" /\ o.doc = d /\ o.listen = op[p].listen
    BY <1>2, <1>3, <2>2 DEF Operation, Steps
  <2> HIDE DEF o
  <2>5. docs' = [docs EXCEPT ![d] = IF docs[d] = None THEN None ELSE Written(p)]
    BY <2>1, <2>2
  <2>6. Saved(p, d)
    BY <2>2, <2>5 DEF Saved
  <2>7. op[p].step = "write" /\ op[p].sub = s
    BY <1>3, <2>1
  <2> QED
    BY <1>4, <2>3, <2>4, <2>6, <2>7, SaveKeepsInv
<1>7. CASE Erase(p)
  <2>1. /\ op[p].step = "erase"
        /\ docs' = IF op[p].doc = None THEN docs ELSE [docs EXCEPT ![op[p].doc] = None]
        /\ op' = [op EXCEPT ![p].step = "uncache"]
    BY <1>7 DEF Erase, At, Goto
  <2> DEFINE o == [op[p] EXCEPT !.step = "uncache"]
  <2>2. op' = [op EXCEPT ![p] = o]
    BY <1>1, <2>1 DEF TypeOK
  <2>3. /\ o \in Operation /\ o.sub = s /\ o.as = op[p].as /\ o.kind = op[p].kind /\ o.step = "uncache"
        /\ o.doc = op[p].doc
    BY <1>2, <1>3 DEF Operation, Steps
  <2> HIDE DEF o
  <2>4. docs' = IF o.doc = None THEN docs ELSE [docs EXCEPT ![o.doc] = None]
    BY <2>1, <2>3
  <2>5. op[p].step = "erase" /\ op[p].sub = s
    BY <1>3, <2>1
  <2> QED
    BY <1>4, <2>2, <2>3, <2>4, <2>5, EraseKeepsInv
<1> QED
  BY <1>5, <1>6, <1>7

LEMMA CacheStepsKeepInv ==
    ASSUME SubscriptionsInv, NEW p \in Proc, CacheSet(p) \/ CacheExpire(p) \/ Uncache(p)
    PROVE  SubscriptionsInv'
<1>1. op[p].step \in {"cache", "expire", "uncache"} /\ TypeOK
  BY DEF CacheSet, CacheExpire, Uncache, At, SubscriptionsInv
<1>2. /\ op[p] \in Operation /\ op[p].sub \in Sub
      /\ op[p].step \notin {"idle", "keys", "findMany"}
  BY <1>1, InProgress
<1>3. PICK s \in Sub : s = op[p].sub
  BY <1>2
<1>4. UNCHANGED <<docs, wsVars, historyVars, listed>> /\ cache[s] \in Entry \cup {None}
  BY <1>1 DEF CacheSet, CacheExpire, Uncache, TypeOK
<1>5. ASSUME NEW step \in Steps, NEW entry \in Entry \cup {None},
             op' = [op EXCEPT ![p].step = step], cache' = [cache EXCEPT ![s] = entry],
             \/ op[p].step = "cache" /\ step = "expire" /\ entry # None /\ entry.listen = op[p].listen
             \/ /\ op[p].step = "expire" /\ step = "return"
                /\ cache[s] = None <=> entry = None
                /\ cache[s] # None => entry.ttl /\ entry.listen = cache[s].listen
             \/ op[p].step = "uncache" /\ step = "return" /\ entry = None
      PROVE  SubscriptionsInv'
  <2> DEFINE o == [op[p] EXCEPT !.step = step]
  <2>1. op' = [op EXCEPT ![p] = o]
    BY <1>1, <1>5 DEF TypeOK
  <2>2. /\ o \in Operation /\ o.sub = s /\ o.as = op[p].as /\ o.kind = op[p].kind /\ o.step = step
        /\ o.doc = op[p].doc /\ o.listen = op[p].listen
    BY <1>2, <1>3 DEF Operation
  <2> HIDE DEF o
  <2> QED
    BY <1>1, <1>3, <1>4, <1>5, <2>1, <2>2, CachingKeepsInv
<1>6. "expire" \in Steps /\ "return" \in Steps
  BY DEF Steps
<1>7. CASE CacheSet(p)
  <2> DEFINE entry == [listen |-> op[p].listen, ttl |-> FALSE]
  <2>1. /\ op[p].step = "cache" /\ op' = [op EXCEPT ![p].step = "expire"]
        /\ cache' = [cache EXCEPT ![s] = entry]
    BY <1>3, <1>7 DEF CacheSet, At, Goto
  <2>2. entry \in Entry /\ entry.listen = op[p].listen
    BY <1>2 DEF Entry, Operation
  <2> HIDE DEF entry
  <2>3. entry # None
    BY <2>2, SubscriptionAssumption
  <2> QED
    BY <1>5, <1>6, <2>1, <2>2, <2>3
<1>8. CASE CacheExpire(p)
  <2> DEFINE entry == IF cache[s] = None THEN None ELSE [cache[s] EXCEPT !.ttl = TRUE]
  <2>1. op[p].step = "expire" /\ op' = [op EXCEPT ![p].step = "return"]
    BY <1>8 DEF CacheExpire, At, Goto
  <2>2. cache' = IF cache[s] = None THEN cache ELSE [cache EXCEPT ![s].ttl = TRUE]
    BY <1>3, <1>8 DEF CacheExpire
  <2>3. cache' = [cache EXCEPT ![s] = entry]
    BY <1>1, <2>2 DEF TypeOK
  <2>4. /\ entry \in Entry \cup {None} /\ (cache[s] = None <=> entry = None)
        /\ cache[s] # None => entry.ttl /\ entry.listen = cache[s].listen
    BY <1>4, SubscriptionAssumption DEF Entry
  <2> HIDE DEF entry
  <2> QED
    BY <1>5, <1>6, <2>1, <2>3, <2>4
<1>9. CASE Uncache(p)
  <2>1. /\ op[p].step = "uncache" /\ op' = [op EXCEPT ![p].step = "return"]
        /\ cache' = [cache EXCEPT ![s] = None]
    BY <1>3, <1>9 DEF Uncache, At, Goto
  <2> QED
    BY <1>5, <1>6, <2>1
<1> QED
  BY <1>7, <1>8, <1>9

LEMMA EndingKeepsInv ==
    ASSUME SubscriptionsInv, NEW p \in Proc, Finish(p) \/ Throw(p)
    PROVE  SubscriptionsInv'
<1>1. TypeOK /\ op[p] \in Operation /\ OpFits(op[p]) /\ op[p].step # "idle"
  BY DEF Finish, Throw, At, SubscriptionsInv, TypeOK
<1>2. Idle \in Operation /\ OpFits(Idle) /\ Idle.sub = None /\ Idle.doc = None
  BY DEF Idle, Operation, Kinds, Steps, OpFits
<1>3. op' = [op EXCEPT ![p] = Idle]
  BY DEF Finish, Throw, Return
<1>4. TypeOK'
  <2>1. CASE Throw(p)
    <3>1. raced' \in [Sub -> SUBSET Races] /\ faults' \in 0..MaxFaults
      BY <1>1, <2>1, SubscriptionAssumption DEF Throw, At, TypeOK, Races
    <3> QED
      BY <1>1, <1>2, <1>3, <2>1, <3>1 DEF Throw, TypeOK, wsVars
  <2>2. CASE Finish(p)
    <3>1. op[p].sub \in Sub
      BY <1>1, <2>2 DEF Finish, At, OpFits, Idle
    <3>2. room' \subseteq Sub /\ announced' \subseteq Sub
      BY <1>1, <2>2, <3>1 DEF Finish, TypeOK
    <3>3. gone' \in [Sub -> BOOLEAN]
      BY <1>1, <2>2, <3>1 DEF Finish, NoteGone, TypeOK
    <3> QED
      BY <1>1, <1>2, <1>3, <2>2, <3>2, <3>3 DEF Finish, TypeOK
  <2> QED
    BY <2>1, <2>2
<1>5. CASE op[p].step \notin {"keys", "findMany"}
  BY <1>1, <1>4, <1>5, InProgress, EndKeepsInv
<1>6. CASE op[p].step \in {"keys", "findMany"}
  <2>1. Throw(p) /\ op[p].sub = None
    BY <1>1, <1>6 DEF Finish, At, OpFits, Idle
  <2>2. UNCHANGED <<docs, cache, wsVars, gone>> /\ \A s \in Sub : raced'[s] = raced[s]
    BY <1>1, <1>6, <2>1, SubscriptionAssumption DEF Throw, At, TypeOK
  <2> QED
    BY <1>2, <1>3, <1>4, <2>1, <2>2, ListingKeepsInv
<1> QED
  BY <1>5, <1>6

LEMMA ListsKeepInv ==
    ASSUME SubscriptionsInv, NEW p \in Proc,
           ListKeys(p) \/ ListDocs(p) \/ \E useCache \in BOOLEAN : List(p, useCache)
    PROVE  SubscriptionsInv'
<1>1. TypeOK /\ op[p] \in Operation /\ OpFits(op[p])
  BY DEF SubscriptionsInv, TypeOK
<1>2. /\ Idle \in Operation /\ OpFits(Idle) /\ Idle.sub = None /\ Idle.doc = None
  BY DEF Idle, Operation, Kinds, Steps, OpFits
<1>3. UNCHANGED <<docs, cache, wsVars, historyVars>> /\ op[p].sub = None
  <2>1. UNCHANGED <<docs, cache, wsVars, historyVars>>
    BY DEF ListKeys, ListDocs, List
  <2>2. op[p].step \in {"keys", "findMany"} \/ op[p] = Idle
    BY DEF ListKeys, ListDocs, List, At
  <2> QED
    BY <1>1, <1>2, <2>1, <2>2 DEF OpFits
<1>4. listed' \subseteq Entity
  <2>1. [sub |-> None, listen |-> FALSE] \in Entity
    BY DEF Entity
  <2>2. {docs[d] : d \in {e \in Doc : docs[e] # None}} \subseteq Entity
    BY <1>1 DEF TypeOK
  <2> QED
    BY <1>1, <2>1, <2>2 DEF ListKeys, ListDocs, List, TypeOK
<1>5. ASSUME NEW o \in Operation, op' = [op EXCEPT ![p] = o], OpFits(o), o.sub = None, o.doc = None
      PROVE  SubscriptionsInv'
  <2>1. TypeOK'
    BY <1>1, <1>3, <1>4, <1>5 DEF TypeOK, wsVars, historyVars
  <2>2. UNCHANGED <<docs, cache, wsVars, gone>> /\ \A s \in Sub : raced'[s] = raced[s]
    BY <1>3 DEF historyVars
  <2> QED
    BY <1>3, <1>5, <2>1, <2>2, ListingKeepsInv
<1>6. CASE Return(p)
  BY <1>2, <1>5, <1>6 DEF Return
<1>7. CASE ListKeys(p) /\ ~Return(p)
  <2> DEFINE o == [op[p] EXCEPT !.step = "findMany"]
  <2>1. op' = [op EXCEPT ![p] = o] /\ op[p].step = "keys"
    BY <1>1, <1>7 DEF ListKeys, Goto, TypeOK, At
  <2>2. o \in Operation /\ o.kind = op[p].kind /\ o.sub = None /\ o.doc = op[p].doc /\ o.step = "findMany"
    BY <1>1, <1>3 DEF Operation, Steps
  <2> HIDE DEF o
  <2>3. op[p].kind = "list" /\ op[p].doc = None
    BY <1>1, <2>1 DEF OpFits, Idle
  <2>4. OpFits(o)
    BY <2>2, <2>3 DEF OpFits
  <2> QED
    BY <1>5, <2>1, <2>2, <2>3, <2>4
<1>8. ASSUME NEW useCache \in BOOLEAN, List(p, useCache)
      PROVE  SubscriptionsInv'
  <2> DEFINE o == [Idle EXCEPT !.kind = "list", !.step = "keys", !.listen = useCache]
  <2>1. /\ o \in Operation /\ o.kind = "list" /\ o.sub = None /\ o.doc = None /\ o.step = "keys"
    BY DEF Operation, Steps, Idle, Kinds
  <2>2. op' = [op EXCEPT ![p] = o]
    BY <1>8 DEF List
  <2> HIDE DEF o
  <2>3. OpFits(o)
    BY <2>1 DEF OpFits
  <2> QED
    BY <1>5, <2>1, <2>2, <2>3
<1> QED
  BY <1>6, <1>7, <1>8 DEF ListDocs

LEMMA InitHasInv == Init => SubscriptionsInv
<1> SUFFICES ASSUME Init PROVE SubscriptionsInv
  OBVIOUS
<1>1. /\ Idle \in Operation /\ OpFits(Idle) /\ DocFits(Idle) /\ Idle.sub = None /\ Idle.step = "idle"
      /\ None \notin Sub
  BY SubscriptionAssumption DEF Idle, Operation, Kinds, Steps, OpFits, DocFits
<1>2. TypeOK
  <2>1. docs \in [Doc -> Entity \cup {None}] /\ cache \in [Sub -> Entry \cup {None}]
    BY DEF Init
  <2>2. op \in [Proc -> Operation] /\ faults \in 0..MaxFaults
    BY <1>1, SubscriptionAssumption DEF Init
  <2>3. raced \in [Sub -> SUBSET Races] /\ gone \in [Sub -> BOOLEAN]
    BY DEF Init
  <2> QED
    BY <2>1, <2>2, <2>3 DEF Init, TypeOK
<1>3. \A p \in Proc : op[p] = Idle
  BY DEF Init
<1>4. (\A p \in Proc : OpFits(op[p]) /\ DocFits(op[p])) /\ RacesAreNoted
  BY <1>1, <1>3 DEF RacesAreNoted
<1>5. ASSUME NEW s \in Sub
      PROVE  IdFits(s)
  <2>1. /\ DocsOf(s) = {} /\ Active(s) = {} /\ Saving(s) = {} /\ Deleting(s) = {} /\ Getting(s) = {}
    BY <1>1, <1>3 DEF DocsOf, Active, Saving, Deleting, Getting, Init
  <2>2. cache[s] = None /\ raced[s] = {} /\ gone[s] = FALSE /\ s \notin room /\ s \notin announced
    BY DEF Init
  <2> QED
    BY <2>1, <2>2 DEF IdFits, Single, Kept, Removed, Writes, Cached, Roomed, Expires, Stored
<1> QED
  BY <1>2, <1>4, <1>5 DEF SubscriptionsInv

LEMMA NextKeepsInv == SubscriptionsInv /\ [Next]_vars => SubscriptionsInv'
<1> SUFFICES ASSUME SubscriptionsInv, [Next]_vars PROVE SubscriptionsInv'
  OBVIOUS
<1>1. CASE \E p \in Proc, s \in Sub : Start(p, s)
  BY <1>1, StartKeepsInv
<1>2. CASE \E p \in Proc : Find(p) \/ Reread(p) \/ Lookup(p) \/ Fetch(p)
  BY <1>2, ReadingKeepsInv
<1>3. CASE \E p \in Proc : Insert(p) \/ Update(p) \/ Erase(p)
  BY <1>3, WritingKeepsInv
<1>4. CASE \E p \in Proc : CacheSet(p) \/ CacheExpire(p) \/ Uncache(p)
  BY <1>4, CacheStepsKeepInv
<1>5. CASE \E p \in Proc : Finish(p) \/ Throw(p)
  BY <1>5, EndingKeepsInv
<1>6. CASE \E p \in Proc : ListKeys(p) \/ ListDocs(p) \/ \E useCache \in BOOLEAN : List(p, useCache)
  BY <1>6, ListsKeepInv
<1>7. CASE \E s \in Sub : Elapse(s)
  BY <1>7, ElapseKeepsInv
<1>8. CASE UNCHANGED vars
  <2>1. UNCHANGED <<docs, cache, socket, room, announced, op, raced, gone, faults, listed>>
    BY <1>8 DEF vars, wsVars, historyVars
  <2>2. TypeOK' /\ RacesAreNoted' /\ (\A p \in Proc : OpFits(op[p]) /\ DocFits(op[p]))'
    BY <2>1 DEF SubscriptionsInv, TypeOK, RacesAreNoted, OpFits, DocFits, Alike, Renamed
  <2>3. \A s \in Sub : SameFor(s)
    BY <2>1 DEF SameFor
  <2> QED
    BY <2>2, <2>3, Untouched DEF SubscriptionsInv
<1> QED
  BY <1>1, <1>2, <1>3, <1>4, <1>5, <1>6, <1>7, <1>8 DEF Next, Advance

(***************************************************************************)
(* The theorems.                                                           *)
(***************************************************************************)

(* Whatever operations overlap or fail and whichever ids reconnect messages
   carry: state and operations fit together, every id has what its history
   lets it rely on, and no cache entry lives for ever unless a call failed
   between storing it and giving it a time to live.                        *)
THEOREM SubscriptionsInvariant == Spec => []SubscriptionsInv
  BY InitHasInv, NextKeepsInv, PTL DEF Spec

(* Only two overlapping saves, or a reconnect message that stores an id under
   another, make a second document for an id.                              *)
THEOREM DocumentsAreUnique == Spec => []OneDocument
<1>1. SubscriptionsInv => OneDocument
  <2> SUFFICES ASSUME SubscriptionsInv, NEW s \in Sub, Apart(s, {"saves", "renamed"})
               PROVE  Cardinality(DocsOf(s)) <= 1
    BY DEF OneDocument
  <2>1. \A d, e \in DocsOf(s) : d = e
    BY DEF SubscriptionsInv, IdFits, Single
  <2>2. CASE DocsOf(s) = {}
    <3>1. Cardinality(DocsOf(s)) = 0
      BY <2>2, FS_EmptySet
    <3> QED
      BY <3>1
  <2>3. CASE DocsOf(s) # {}
    <3>1. PICK d : DocsOf(s) = {d}
      BY <2>1, <2>3
    <3>2. Cardinality(DocsOf(s)) = 1
      BY <3>1, FS_Singleton
    <3> QED
      BY <3>2
  <2> QED
    BY <2>2, <2>3
<1> QED
  BY <1>1, SubscriptionsInvariant, PTL

(* A deletion that no save overlapped leaves nothing behind until the next save,
   in the cache either if no reader overlapped; an id that was never stored
   under another nor another under it.                                     *)
THEOREM DeletedStaysGone == Spec => []DeletedIsGone
<1>1. SubscriptionsInv => DeletedIsGone
  BY DEF SubscriptionsInv, IdFits, Removed, Apart, DeletedIsGone
<1> QED
  BY <1>1, SubscriptionsInvariant, PTL

(* Between operations that neither overlapped nor failed the cache of an id that
   was not renamed says what the store says.                               *)
THEOREM CacheAndStoreAgree == Spec => []CacheMatchesStore
<1>1. SubscriptionsInv => CacheMatchesStore
  BY DEF SubscriptionsInv, IdFits, Cached, Saving, Deleting, Stored, CacheMatchesStore
<1> QED
  BY <1>1, SubscriptionsInvariant, PTL

(* Between such operations, readers apart, the room holds the sockets whose
   document listens.                                                       *)
THEOREM RoomAndStoreAgree == Spec => []RoomMatchesStore
<1>1. SubscriptionsInv => RoomMatchesStore
  <2> SUFFICES ASSUME SubscriptionsInv, NEW s \in Sub, Active(s) = {}, raced[s] \subseteq {"readWrite"}
               PROVE  s \in room <=> \E d \in DocsOf(s) : docs[d].listen
    BY DEF RoomMatchesStore
  <2>1. s \in room <=> Stored(s, TRUE)
    BY DEF SubscriptionsInv, IdFits, Roomed, Saving, Deleting
  <2>2. \A d \in DocsOf(s) : docs[d].listen \in BOOLEAN
    BY DEF SubscriptionsInv, TypeOK, DocsOf, Entity
  <2> QED
    BY <2>1, <2>2 DEF Stored
<1> QED
  BY <1>1, SubscriptionsInvariant, PTL

(* An announced connection that is still open is stored, whatever overlaps or
   fails, unless somebody wrote it through GraphQL or a reconnect message
   stored it under another id or another under it.                         *)
THEOREM AnnouncedStaysStored == Spec => []AnnouncedIsStored
<1>1. SubscriptionsInv => AnnouncedIsStored
  <2> SUFFICES ASSUME SubscriptionsInv, NEW s \in announced, socket[s] = "connected",
                      Apart(s, {"foreign", "renamed"})
               PROVE  DocsOf(s) # {}
    BY DEF AnnouncedIsStored
  <2>1. s \in Sub
    BY DEF SubscriptionsInv, TypeOK
  <2> QED
    BY <2>1 DEF SubscriptionsInv, IdFits, Kept
<1> QED
  BY <1>1, SubscriptionsInvariant, PTL
=============================================================================
