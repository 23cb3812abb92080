---------------------------- MODULE GarageProofs ----------------------------
(***************************************************************************)
(* Theorems about Garage: the indexes hold for any number of concurrent    *)
(* requests; until two requests overlap none of them meets an index, and   *)
(* one bike of the garage is current.                                      *)
(***************************************************************************)
EXTENDS Garage, TLAPS, WellFoundedInduction

\* A nonempty set of rows has a newest one, and Newest finds it.
LEMMA NewestRow ==
  ASSUME NEW S \in SUBSET Ids, S # {}
  PROVE  Newest(S) \in S /\ \A j \in S : j <= Newest(S)
<1> DEFINE Less == OpToRel(<, Nat)
           Ages == {MaxRows - i : i \in S}
<1>1. Ages \subseteq Nat /\ Ages # {}
  BY MaxRowsAssumption DEF Ids
<1>2. IsWellFoundedOn(Less, Nat)
  BY NatLessThanWellFounded
<1> HIDE DEF Less
<1>3. PICK a \in Ages : \A b \in Ages : <<b, a>> \notin Less
  BY ONLY <1>1, <1>2, WFMin
<1>4. \A b \in Nat : b < a => <<b, a>> \in Less
  BY <1>1, <1>3 DEF Less, OpToRel
<1>5. PICK i \in S : a = MaxRows - i
  BY <1>3
<1>6. \A j \in S : j <= i
  <2> SUFFICES ASSUME NEW j \in S PROVE j <= i
    OBVIOUS
  <2>1. MaxRows - j \in Ages
    OBVIOUS
  <2>2. ~(MaxRows - j < MaxRows - i)
    BY <2>1, <1>1, <1>3, <1>4, <1>5
  <2> QED
    BY <2>2, MaxRowsAssumption DEF Ids
<1> QED
  BY <1>6 DEF Newest

\* Of no rows it finds none.
LEMMA NewestType ==
  ASSUME NEW S \in SUBSET Ids
  PROVE  Newest(S) \in Ids \cup {None} /\ (Newest(S) = None <=> S = {})
<1>1. CASE S = {}
  BY <1>1 DEF Newest
<1>2. CASE S # {}
  <2>1. Newest(S) \in S
    BY <1>2, NewestRow
  <2>2. Newest(S) \in Ids
    BY <2>1
  <2>3. \A n \in Ids : n # None
    BY MaxRowsAssumption DEF Ids, None
  <2> QED
    BY <1>2, <2>2, <2>3
<1> QED
  BY <1>1, <1>2

-----------------------------------------------------------------------------
(* Any number of requests.                                                 *)

\* What a request holds at each point of its way.
RequestInv(q) ==
    /\ q \in RequestType
    /\ q.pc \in {"add", "insert"} => q.bike \in Bikes
    /\ q.pc \in {"insert", "set", "switch", "delete", "promote"} => q.row \in Ids
    /\ q.pc = "promote" /\ q.flag => q.other \in Ids /\ q.other # q.row

GarageInv == TypeOK /\ IndexesHold /\ \A r \in Requests : RequestInv(req[r])

LEMMA IdleRequest == RequestInv(Idle)
BY DEF RequestInv, RequestType, Idle, None

LEMMA RemovalRequest ==
  ASSUME NEW i \in Ids, NEW flag \in BOOLEAN
  PROVE  RequestInv([Idle EXCEPT !.pc = "delete", !.row = i, !.flag = flag])
BY DEF RequestInv, RequestType, Idle, None

\* Only the request that takes a step moves.
LEMMA OtherRequests ==
  ASSUME GarageInv, NEW r \in Requests, NEW q, RequestInv(q), req' = [req EXCEPT ![r] = q]
  PROVE  /\ req' \in [Requests -> RequestType]
         /\ \A p \in Requests : RequestInv(req'[p])
BY DEF GarageInv, TypeOK, RequestInv

\* What the arrival of a request changes.
LEMMA BeginKeeps ==
  ASSUME GarageInv, NEW r \in Requests, NEW q, RequestInv(q), Begin(r, q)
  PROVE  /\ TypeOK' /\ \A p \in Requests : RequestInv(req'[p])
         /\ UNCHANGED <<bikeOf, current>>
<1>1. req' \in [Requests -> RequestType] /\ \A p \in Requests : RequestInv(req'[p])
  BY OtherRequests DEF Begin
<1> QED
  BY <1>1 DEF Begin, GarageInv, TypeOK

LEMMA GarageInit == Init => GarageInv
<1> SUFFICES ASSUME Init PROVE GarageInv
  OBVIOUS
<1>1. Rows = {}
  BY DEF Init, Rows
<1>2. TypeOK
  <2>1. bikeOf \in [Ids -> Bikes \cup {NoBike}] /\ req \in [Requests -> RequestType]
    BY IdleRequest DEF Init, RequestInv
  <2>2. lastId \in 0..MaxRows
    BY MaxRowsAssumption DEF Init
  <2> QED
    BY <2>1, <2>2 DEF Init, TypeOK
<1> QED
  BY <1>1, <1>2, IdleRequest DEF Init, GarageInv, IndexesHold

\* A step that leaves the table alone keeps what is said of it.
LEMMA TableKept ==
  ASSUME IndexesHold, UNCHANGED <<bikeOf, current>>
  PROVE  IndexesHold'
BY DEF IndexesHold, Rows

LEMMA GarageStep == GarageInv /\ [Next]_vars => GarageInv'
<1> SUFFICES ASSUME GarageInv, [Next]_vars PROVE GarageInv'
  OBVIOUS
<1> USE DEF GarageInv
<1>0. /\ bikeOf \in [Ids -> Bikes \cup {NoBike}] /\ current \subseteq Ids
      /\ lastId \in 0..MaxRows /\ user \in BOOLEAN /\ failed \in BOOLEAN
      /\ overlapped \in BOOLEAN
      /\ req \in [Requests -> RequestType] /\ Rows \subseteq Ids
  BY DEF TypeOK, Rows
<1>1. ASSUME NEW r \in Requests, Fail(r) PROVE GarageInv'
  <2>1. TypeOK' /\ \A p \in Requests : RequestInv(req'[p])
    BY <1>0, <1>1, IdleRequest, OtherRequests DEF Fail, TypeOK
  <2> QED
    BY <1>1, <2>1, TableKept DEF Fail
<1>2. ASSUME NEW r \in Requests, NEW b \in Bikes, AddBegin(r, b) PROVE GarageInv'
  <2> DEFINE q == [Idle EXCEPT !.pc = "add", !.bike = b, !.flag = ~user]
  <2>1. RequestInv(q)
    BY <1>0 DEF RequestInv, RequestType, Idle, None
  <2> QED
    BY <1>2, <2>1, BeginKeeps, TableKept DEF AddBegin
<1>3. ASSUME NEW r \in Requests, AddRow(r) PROVE GarageInv'
  <2> DEFINE q == [req[r] EXCEPT !.pc = "insert", !.row = lastId + 1,
                                 !.other = Newest(current)]
  <2>1. req' = [req EXCEPT ![r] = q]
    BY <1>0, <1>3 DEF AddRow
  <2>2. lastId + 1 \in Ids /\ lastId + 1 \in 0..MaxRows
    BY <1>0, <1>3, MaxRowsAssumption DEF AddRow, Ids
  <2>3. RequestInv(q)
    <3>1. /\ RequestInv(req[r]) /\ req[r].pc = "add"
          /\ Newest(current) \in Ids \cup {None}
      BY <1>0, <1>3, NewestType DEF AddRow
    <3> QED
      BY <2>2, <3>1 DEF RequestInv, RequestType
  <2>4. TypeOK' /\ \A p \in Requests : RequestInv(req'[p])
    BY <1>0, <1>3, <2>1, <2>2, <2>3, OtherRequests DEF AddRow, TypeOK
  <2> QED
    BY <1>3, <2>4, TableKept DEF AddRow
<1>4. ASSUME NEW r \in Requests, Insert(r) PROVE GarageInv'
  <2> DEFINE i == req[r].row
             b == req[r].bike
  <2>1. i \in Ids /\ b \in Bikes /\ b # NoBike
    BY <1>4, NoBikeAssumption DEF Insert, RequestInv
  <2>2. TypeOK' /\ \A p \in Requests : RequestInv(req'[p])
    BY <1>0, <1>4, <2>1, IdleRequest, OtherRequests DEF Insert, TypeOK
  <2>3. Rows' = Rows \cup {i} /\ bikeOf'[i] = b /\ \A j \in Ids \ {i} : bikeOf'[j] = bikeOf[j]
    BY <1>0, <1>4, <2>1 DEF Insert, Rows
  <2>4. \A j \in Rows : bikeOf[j] # b
    BY <1>4 DEF Insert, Conflicts
  <2>5. current' = current \/ (current = {} /\ current' = {i})
    BY <1>4 DEF Insert, Conflicts
  <2>6. IndexesHold'
    BY <1>0, <2>3, <2>4, <2>5 DEF IndexesHold
  <2> QED
    BY <2>2, <2>6
<1>5. ASSUME NEW r \in Requests, NEW i \in Ids, SetBegin(r, i) PROVE GarageInv'
  <2> DEFINE q == [Idle EXCEPT !.pc = "set", !.row = i]
  <2>1. RequestInv(q)
    BY DEF RequestInv, RequestType, Idle, None
  <2> QED
    BY <1>5, <2>1, BeginKeeps, TableKept DEF SetBegin
<1>6. ASSUME NEW r \in Requests, SetSelect(r) PROVE GarageInv'
  <2> DEFINE q == [req[r] EXCEPT !.pc = "switch", !.other = Newest(current)]
  <2>1. req' = [req EXCEPT ![r] = q]
    BY <1>0, <1>6 DEF SetSelect
  <2>2. RequestInv(q)
    <3>1. /\ RequestInv(req[r]) /\ req[r].pc = "set"
          /\ Newest(current) \in Ids \cup {None}
      BY <1>0, <1>6, NewestType DEF SetSelect
    <3> QED
      BY <3>1 DEF RequestInv, RequestType
  <2>3. TypeOK' /\ \A p \in Requests : RequestInv(req'[p])
    BY <1>0, <1>6, <2>1, <2>2, OtherRequests DEF SetSelect, TypeOK
  <2> QED
    BY <1>6, <2>3, TableKept DEF SetSelect
<1>7. ASSUME NEW r \in Requests, Switch(r) PROVE GarageInv'
  <2>1. req[r].row \in Rows /\ current' = {req[r].row}
    BY <1>7 DEF Switch, SwitchConflicts
  <2>2. TypeOK' /\ \A p \in Requests : RequestInv(req'[p])
    BY <1>0, <1>7, <2>1, IdleRequest, OtherRequests DEF Switch, TypeOK
  <2>3. Rows' = Rows /\ bikeOf' = bikeOf
    BY <1>7 DEF Switch, Rows
  <2> QED
    BY <2>1, <2>2, <2>3 DEF IndexesHold
<1>8. ASSUME NEW r \in Requests, NEW i \in Ids, RemoveBegin(r, i) PROVE GarageInv'
  <2> DEFINE q == [Idle EXCEPT !.pc = "delete", !.row = i, !.flag = i \in current]
  <2>1. RequestInv(q)
    BY (i \in current) \in BOOLEAN, RemovalRequest
  <2> QED
    BY <1>8, <2>1, BeginKeeps, TableKept DEF RemoveBegin
<1>9. ASSUME NEW i \in Ids, bikeOf' = Removed(i)
      PROVE  /\ bikeOf' \in [Ids -> Bikes \cup {NoBike}]
             /\ Rows' = Rows \ {i}
             /\ \A j \in Rows \ {i} : bikeOf'[j] = bikeOf[j]
  BY <1>0, <1>9 DEF Removed, Rows
<1>10. ASSUME NEW r \in Requests, Delete(r) PROVE GarageInv'
  <2>1. /\ req[r].row \in Ids /\ bikeOf' = Removed(req[r].row)
        /\ current' = current \ {req[r].row}
    BY <1>10 DEF Delete, RequestInv
  <2>2. TypeOK' /\ \A p \in Requests : RequestInv(req'[p])
    BY <1>0, <1>9, <1>10, <2>1, IdleRequest, OtherRequests DEF Delete, TypeOK
  <2> QED
    BY <1>9, <2>1, <2>2 DEF IndexesHold
<1>11. ASSUME NEW r \in Requests, DeleteCurrent(r) PROVE GarageInv'
  <2> DEFINE i == req[r].row
             successor == Newest(Rows \ {i})
             q == [req[r] EXCEPT !.pc = "promote", !.other = successor,
                                 !.flag = successor # None /\ successor \notin current]
  <2>1. req' = [req EXCEPT ![r] = q]
    BY <1>0, <1>11 DEF DeleteCurrent
  <2>2. /\ i \in Ids /\ successor \in Ids \cup {None}
        /\ successor # None => successor \in Rows \ {i}
    BY <1>0, <1>11, NewestType, NewestRow DEF DeleteCurrent, RequestInv
  <2>3. RequestInv(q)
    <3>1. q \in RequestType
      <4>1. /\ req[r] \in RequestType
            /\ (successor # None /\ successor \notin current) \in BOOLEAN
        BY <1>0
      <4> HIDE DEF successor
      <4> QED
        BY <2>2, <4>1 DEF RequestType
    <3>2. q.row = i /\ q.pc = "promote" /\ q.other = successor
             /\ (q.flag => successor # None)
      BY <1>0 DEF RequestType
    <3> QED
      BY <1>0, <2>2, <3>1, <3>2 DEF RequestInv
  <2>4. TypeOK' /\ \A p \in Requests : RequestInv(req'[p])
    BY <1>0, <1>11, <2>1, <2>3, OtherRequests DEF DeleteCurrent, TypeOK
  <2> QED
    BY <1>11, <2>4, TableKept DEF DeleteCurrent
<1>12. ASSUME NEW r \in Requests, Promote(r) PROVE GarageInv'
  <2> DEFINE i == req[r].row
             other == req[r].other
  <2>1. /\ i \in Ids /\ bikeOf' = Removed(i)
        /\ req[r].flag => other \in Rows \ {i} /\ current \ {i, other} = {}
        /\ current' = (current \ {i}) \cup (IF req[r].flag THEN {other} ELSE {})
    BY <1>12 DEF Promote, PromoteConflicts, RequestInv
  <2>2. current' \subseteq Rows \ {i} /\ \A j, k \in current' : j = k
    BY <2>1 DEF IndexesHold
  <2>3. TypeOK' /\ \A p \in Requests : RequestInv(req'[p])
    BY <1>0, <1>9, <1>12, <2>1, <2>2, IdleRequest, OtherRequests DEF Promote, TypeOK
  <2> QED
    BY <1>9, <2>1, <2>2, <2>3 DEF IndexesHold
<1>13. ASSUME UNCHANGED vars PROVE GarageInv'
  BY <1>13 DEF vars, TypeOK, IndexesHold, Rows
<1> QED
  BY <1>1, <1>2, <1>3, <1>4, <1>5, <1>6, <1>7, <1>8, <1>10, <1>11, <1>12, <1>13
     DEF Next, Step, InsertFails, SwitchFails, PromoteFails, DeadlockDetected

LEMMA GarageInvariant == Spec => []GarageInv
BY GarageInit, GarageStep, PTL DEF Spec

\* The shape of every variable.
THEOREM GarageTypeCorrect == Spec => []TypeOK
<1>1. GarageInv => TypeOK
  BY DEF GarageInv
<1> QED
  BY <1>1, GarageInvariant, PTL

\* However many requests add, switch and remove bikes at once, at most one bike is
\* current, it is in the garage, and no bike is there twice.
THEOREM IndexesAlwaysHold == Spec => []IndexesHold
<1>1. GarageInv => IndexesHold
  BY DEF GarageInv
<1> QED
  BY <1>1, GarageInvariant, PTL

-----------------------------------------------------------------------------
(* Until two requests overlap.                                             *)

\* At most one request is in progress.
OneActive == \A p, q \in Requests : p = q \/ req[p].pc = "idle" \/ req[q].pc = "idle"

\* Between its steps nothing changes under a request: what it has read of the
\* garage still holds when it writes.
ReadsHold(q) ==
    /\ q.pc \in {"add", "insert"} =>
          /\ \A i \in Rows : bikeOf[i] # q.bike
          /\ q.flag => ~user
    /\ q.pc = "insert" => (q.other = None <=> current = {})
    /\ q.pc = "set" => q.row \in Rows
    /\ q.pc = "switch" => q.row \in Rows /\ current \subseteq {q.other}
                         /\ q.other \in Rows \cup {None}
    /\ q.pc = "delete" => q.row \in Rows /\ (q.flag <=> q.row \in current)
    /\ q.pc = "promote" =>
          /\ current = {q.row}
          /\ q.flag => /\ q.other \in Rows \ {q.row}
                       /\ \A k \in Rows \ {q.row} : k <= q.other
          /\ Rows \ {q.row} # {} => q.flag

SerialInv ==
    overlapped \/ /\ OneCurrentPerGarage
                  /\ ~failed
                  /\ OneActive
                  /\ \A r \in Requests : ReadsHold(req[r])

\* The end of a request leaves nothing read.
LEMMA IdleReads ==
  ASSUME NEW q, q.pc = "idle"
  PROVE  ReadsHold(q)
BY DEF ReadsHold

LEMMA SerialInit == Init => SerialInv
<1> SUFFICES ASSUME Init PROVE SerialInv
  OBVIOUS
<1>1. Rows = {} /\ current = {} /\ failed = FALSE
  BY DEF Init, Rows
<1>2. \A r \in Requests : req[r].pc = "idle"
  BY DEF Init, Idle
<1>3. \A r \in Requests : ReadsHold(req[r])
  BY <1>2, IdleReads
<1> QED
  BY <1>1, <1>2, <1>3 DEF SerialInv, OneCurrentPerGarage, OneActive

\* The step of the one request in progress: the others read nothing.
LEMMA LoneStep ==
  ASSUME req \in [Requests -> RequestType],
         NEW r \in Requests, \A p \in Requests \ {r} : req[p].pc = "idle",
         NEW q, req' = [req EXCEPT ![r] = q]
  PROVE  /\ OneActive'
         /\ req'[r] = q
         /\ ReadsHold(req[r])' => \A p \in Requests : ReadsHold(req[p])'
<1>1. req'[r] = q /\ \A p \in Requests \ {r} : req'[p].pc = "idle"
  OBVIOUS
<1>2. \A p \in Requests \ {r} : ReadsHold(req[p])'
  BY <1>1 DEF ReadsHold
<1> QED
  BY <1>1, <1>2 DEF OneActive

LEMMA SerialStep == GarageInv /\ SerialInv /\ [Next]_vars => SerialInv'
<1> SUFFICES ASSUME GarageInv, SerialInv, [Next]_vars, ~overlapped' PROVE SerialInv'
  BY DEF SerialInv
<1>a. ~overlapped
  <2>1. CASE UNCHANGED vars
    BY <2>1 DEF vars
  <2> QED
    BY <2>1 DEF Next, Step, Begin, Fail, AddBegin, AddRow, Insert, InsertFails, SetBegin,
         SetSelect, Switch, SwitchFails, RemoveBegin, Delete, DeleteCurrent, Promote,
         PromoteFails, DeadlockDetected
<1>0. /\ GarageInv' /\ ~failed /\ IndexesHold /\ OneActive
      /\ bikeOf \in [Ids -> Bikes \cup {NoBike}] /\ current \subseteq Rows
      /\ Rows \subseteq Ids /\ req \in [Requests -> RequestType]
      /\ \A p \in Requests : RequestInv(req[p]) /\ ReadsHold(req[p])
      /\ Rows # {} => current # {}
      /\ \A i, j \in current : i = j
  BY <1>a, GarageStep DEF SerialInv, GarageInv, TypeOK, IndexesHold, OneCurrentPerGarage, Rows
\* What is left to show of a step.
<1> DEFINE Kept == /\ Rows' # {} => current' # {}
                   /\ ~failed'
                   /\ OneActive'
                   /\ \A p \in Requests : ReadsHold(req[p])'
<1>b. ASSUME Kept PROVE SerialInv'
  BY <1>0, <1>b DEF SerialInv, GarageInv, IndexesHold, OneCurrentPerGarage
\* The request that takes a step is alone.
<1>c. ASSUME NEW r \in Requests, req[r].pc # "idle"
      PROVE  \A p \in Requests \ {r} : req[p].pc = "idle"
  BY <1>0, <1>c DEF OneActive
\* One that arrives is alone too, and finds the garage as it will write it.
<1>d. ASSUME NEW r \in Requests, NEW q, Begin(r, q), ReadsHold(q) PROVE Kept
  <2>1. \A p \in Requests \ {r} : req[p].pc = "idle"
    BY <1>d DEF Begin
  <2>2. OneActive' /\ req'[r] = q
    BY <1>0, <1>d, <2>1, LoneStep DEF Begin
  <2>3. ReadsHold(req[r])'
    BY <1>d, <2>2 DEF Begin, ReadsHold, Rows
  <2>4. \A p \in Requests : ReadsHold(req[p])'
    BY <1>0, <1>d, <2>1, <2>3, LoneStep DEF Begin
  <2> QED
    BY <1>0, <1>d, <2>2, <2>4 DEF Begin, Rows
<1>e. ASSUME NEW r \in Requests, req[r].pc # "idle", req' = [req EXCEPT ![r] = Idle],
             ~failed', Rows' # {} => current' # {}
      PROVE  Kept
  <2>1. OneActive' /\ req'[r] = Idle
    BY <1>0, <1>c, <1>e, LoneStep
  <2>2. ReadsHold(req[r])'
    BY <2>1 DEF ReadsHold, Idle
  <2> QED
    BY <1>0, <1>c, <1>e, <2>1, <2>2, LoneStep
\* One that reads on, and writes nothing.
<1>f. ASSUME NEW r \in Requests, req[r].pc # "idle", NEW q, req' = [req EXCEPT ![r] = q],
             UNCHANGED <<bikeOf, current, user, failed>>, ReadsHold(q)
      PROVE  Kept
  <2>1. OneActive' /\ req'[r] = q
    BY <1>0, <1>c, <1>f, LoneStep
  <2>2. ReadsHold(req[r])'
    BY <1>f, <2>1 DEF ReadsHold, Rows
  <2> QED
    BY <1>0, <1>c, <1>f, <2>1, <2>2, LoneStep DEF Rows
<1>1. ASSUME NEW r \in Requests, NEW b \in Bikes, AddBegin(r, b) PROVE Kept
  <2>1. ReadsHold([Idle EXCEPT !.pc = "add", !.bike = b, !.flag = ~user])
    BY <1>1 DEF AddBegin, ReadsHold, Idle
  <2> QED
    BY <1>1, <1>d, <2>1 DEF AddBegin
<1>2. ASSUME NEW r \in Requests, AddRow(r) PROVE Kept
  <2> DEFINE q == [req[r] EXCEPT !.pc = "insert", !.row = lastId + 1,
                                 !.other = Newest(current)]
  <2>1. req' = [req EXCEPT ![r] = q] /\ req[r].pc # "idle"
    BY <1>0, <1>2 DEF AddRow
  <2>2. Newest(current) = None <=> current = {}
    BY <1>0, NewestType
  <2>3. /\ q.pc = "insert" /\ q.bike = req[r].bike /\ q.flag = req[r].flag
        /\ q.other = Newest(current)
    BY <1>0 DEF RequestType
  <2>4. /\ \A i \in Rows : bikeOf[i] # req[r].bike
        /\ req[r].flag => ~user
    BY <1>0, <1>2 DEF AddRow, ReadsHold
  <2>5. ReadsHold(q)
    BY <2>2, <2>3, <2>4 DEF ReadsHold
  <2> QED
    BY <1>2, <1>f, <2>1, <2>5 DEF AddRow
<1>3. ASSUME NEW r \in Requests, Insert(r) PROVE Kept
  <2>1. current' # {} /\ ~failed' /\ req[r].pc # "idle" /\ req' = [req EXCEPT ![r] = Idle]
    BY <1>0, <1>3 DEF Insert, ReadsHold
  <2> QED
    BY <1>e, <2>1
<1>4. ASSUME NEW r \in Requests, InsertFails(r) PROVE FALSE
  BY <1>0, <1>4 DEF InsertFails, Conflicts, ReadsHold
<1>5. ASSUME NEW r \in Requests, NEW i \in Ids, SetBegin(r, i) PROVE Kept
  <2>1. ReadsHold([Idle EXCEPT !.pc = "set", !.row = i])
    BY <1>5 DEF SetBegin, ReadsHold, Idle
  <2> QED
    BY <1>5, <1>d, <2>1 DEF SetBegin
<1>6. ASSUME NEW r \in Requests, SetSelect(r) PROVE Kept
  <2> DEFINE q == [req[r] EXCEPT !.pc = "switch", !.other = Newest(current)]
  <2>1. req' = [req EXCEPT ![r] = q] /\ req[r].pc # "idle"
    BY <1>0, <1>6 DEF SetSelect
  <2>2. Newest(current) \in Rows \cup {None} /\ current \subseteq {Newest(current)}
    <3>1. CASE current = {}
      BY <1>0, <3>1, NewestType
    <3>2. CASE current # {}
      BY <1>0, <3>2, NewestRow
    <3> QED
      BY <3>1, <3>2
  <2>3. q.pc = "switch" /\ q.row = req[r].row /\ q.other = Newest(current)
    BY <1>0 DEF RequestType
  <2>4. req[r].row \in Rows
    BY <1>0, <1>6 DEF SetSelect, ReadsHold
  <2>5. ReadsHold(q)
    BY <2>2, <2>3, <2>4 DEF ReadsHold
  <2> QED
    BY <1>6, <1>f, <2>1, <2>5 DEF SetSelect
<1>7. ASSUME NEW r \in Requests, Switch(r) PROVE Kept
  <2>1. current' # {} /\ ~failed' /\ req[r].pc # "idle" /\ req' = [req EXCEPT ![r] = Idle]
    BY <1>0, <1>7 DEF Switch
  <2> QED
    BY <1>e, <2>1
<1>8. ASSUME NEW r \in Requests, SwitchFails(r) PROVE FALSE
  BY <1>0, <1>8 DEF SwitchFails, SwitchConflicts, Cleared, ReadsHold
<1>9. ASSUME NEW r \in Requests, NEW i \in Ids, RemoveBegin(r, i) PROVE Kept
  <2>1. ReadsHold([Idle EXCEPT !.pc = "delete", !.row = i, !.flag = i \in current])
    BY <1>9 DEF RemoveBegin, ReadsHold, Idle
  <2> QED
    BY <1>9, <1>d, <2>1 DEF RemoveBegin
<1>10. ASSUME NEW i \in Ids, bikeOf' = Removed(i) PROVE Rows' = Rows \ {i}
  BY <1>0, <1>10 DEF Removed, Rows
<1>11. ASSUME NEW r \in Requests, Delete(r) PROVE Kept
  <2>1. /\ req[r].row \in Rows \ current /\ bikeOf' = Removed(req[r].row)
        /\ current' = current \ {req[r].row} /\ failed' = failed
        /\ req[r].pc # "idle" /\ req' = [req EXCEPT ![r] = Idle]
    BY <1>0, <1>11 DEF Delete, ReadsHold
  <2>2. Rows' \subseteq Rows /\ current' = current
    BY <1>0, <1>10, <2>1
  <2> QED
    BY <1>0, <1>e, <2>1, <2>2
<1>12. ASSUME NEW r \in Requests, DeleteCurrent(r) PROVE Kept
  <2> DEFINE i == req[r].row
             successor == Newest(Rows \ {i})
             q == [req[r] EXCEPT !.pc = "promote", !.other = successor,
                                 !.flag = successor # None /\ successor \notin current]
  <2>1. req' = [req EXCEPT ![r] = q] /\ req[r].pc # "idle"
    BY <1>0, <1>12 DEF DeleteCurrent
  <2>2. /\ q.pc = "promote" /\ q.row = i /\ q.other = successor
        /\ q.flag = (successor # None /\ successor \notin current)
    BY <1>0 DEF RequestType
  <2>3. current = {i}
    BY <1>0, <1>12 DEF DeleteCurrent, ReadsHold
  <2>4. /\ successor # None => /\ successor \in Rows \ {i}
                               /\ \A k \in Rows \ {i} : k <= successor
        /\ Rows \ {i} # {} => successor # None
    BY <1>0, NewestType, NewestRow
  <2> HIDE DEF successor
  <2>5. q.flag <=> successor # None
    BY <2>2, <2>3, <2>4
  <2> HIDE DEF q
  <2>6. ReadsHold(q)
    BY <2>2, <2>3, <2>4, <2>5 DEF ReadsHold
  <2> QED
    BY <1>12, <1>f, <2>1, <2>6 DEF DeleteCurrent
<1>13. ASSUME NEW r \in Requests, Promote(r) PROVE Kept
  <2> DEFINE i == req[r].row
  <2>1. /\ i \in Ids /\ bikeOf' = Removed(i) /\ failed' = failed
        /\ Rows \ {i} # {} => req[r].flag
        /\ req[r].flag => current' # {}
        /\ req[r].pc # "idle" /\ req' = [req EXCEPT ![r] = Idle]
    BY <1>0, <1>13 DEF Promote, ReadsHold, RequestInv
  <2>2. Rows' = Rows \ {i}
    BY <1>10, <2>1
  <2> QED
    BY <1>0, <1>e, <2>1, <2>2
<1>14. ASSUME NEW r \in Requests, PromoteFails(r) PROVE FALSE
  BY <1>0, <1>14 DEF PromoteFails, PromoteConflicts, ReadsHold
<1>15. ASSUME NEW r \in Requests, DeadlockDetected(r) PROVE FALSE
  BY <1>0, <1>15 DEF DeadlockDetected, OneActive
<1>16. ASSUME UNCHANGED vars PROVE Kept
  BY <1>0, <1>16 DEF vars, ReadsHold, Rows, OneActive
<1> QED
  BY <1>b, <1>1, <1>2, <1>3, <1>4, <1>5, <1>6, <1>7, <1>8, <1>9, <1>11, <1>12,
     <1>13, <1>14, <1>15, <1>16 DEF Next, Step

LEMMA SerialInvariant == Spec => [](GarageInv /\ SerialInv)
<1>1. Init => GarageInv /\ SerialInv
  BY GarageInit, SerialInit
<1>2. GarageInv /\ SerialInv /\ [Next]_vars => (GarageInv /\ SerialInv)'
  BY GarageStep, SerialStep
<1> QED
  BY <1>1, <1>2, PTL DEF Spec

\* Until two requests overlap, they keep a bike of a garage that is not empty
\* current, however many bikes come and go.
THEOREM CurrentBikeKept == Spec => []CurrentUntilOverlap
<1>1. SerialInv => CurrentUntilOverlap
  BY DEF SerialInv, CurrentUntilOverlap
<1> QED
  BY <1>1, SerialInvariant, PTL

\* And none of them is answered with a server error: only an overlap of two
\* requests takes a statement to the indexes, to a row that is gone or into a
\* deadlock.
THEOREM OnlyOverlapsFail == Spec => []FailuresOverlap
<1>1. SerialInv => FailuresOverlap
  BY DEF SerialInv, FailuresOverlap
<1> QED
  BY <1>1, SerialInvariant, PTL

\* When the current bike leaves, the newest of the others takes its place in the
\* same transaction, until two requests overlap.
THEOREM NewestAlwaysPromoted == Spec => NewestPromoted
<1> DEFINE Promotion == \A i \in current : ~overlapped' /\ i \notin Rows' =>
                          /\ Rows' # {} => current' # {}
                          /\ \A j \in current', k \in Rows' : k <= j
<1>1. ASSUME GarageInv, SerialInv, [Next]_vars, ~overlapped' PROVE Promotion
  <2>a. ~overlapped
    BY <1>1 DEF Next, Step, vars, Begin, Fail, AddBegin, AddRow, Insert, InsertFails, SetBegin,
         SetSelect, Switch, SwitchFails, RemoveBegin, Delete, DeleteCurrent, Promote,
         PromoteFails, DeadlockDetected
  <2>0. /\ bikeOf \in [Ids -> Bikes \cup {NoBike}] /\ Rows \subseteq Ids
        /\ current \subseteq Rows
        /\ \A p \in Requests : RequestInv(req[p]) /\ ReadsHold(req[p])
    BY <1>1, <2>a DEF SerialInv, GarageInv, TypeOK, IndexesHold, Rows
  <2>1. CASE bikeOf' = bikeOf
    BY <2>0, <2>1 DEF Rows
  <2>2. ASSUME NEW r \in Requests, Insert(r) PROVE Promotion
    <3>1. \A j \in Rows : bikeOf'[j] \in {bikeOf[j], req[r].bike}
      BY <2>0, <2>2 DEF Insert, Rows
    <3>2. req[r].bike # NoBike
      BY <2>0, <2>2, NoBikeAssumption DEF Insert, RequestInv
    <3> QED
      BY <2>0, <3>1, <3>2 DEF Rows
  <2>3. ASSUME NEW i \in Ids, bikeOf' = Removed(i) PROVE Rows' = Rows \ {i}
    BY <2>0, <2>3 DEF Removed, Rows
  <2>4. ASSUME NEW r \in Requests, Delete(r) PROVE Promotion
    <3>1. req[r].row \in Rows \ current /\ bikeOf' = Removed(req[r].row)
      BY <2>0, <2>4 DEF Delete, ReadsHold
    <3> QED
      BY <2>0, <2>3, <3>1
  <2>5. ASSUME NEW r \in Requests, Promote(r) PROVE Promotion
    <3> DEFINE i == req[r].row
    <3>1. /\ i \in Ids /\ bikeOf' = Removed(i) /\ current = {i}
          /\ req[r].flag => \A k \in Rows \ {i} : k <= req[r].other
          /\ Rows \ {i} # {} => req[r].flag
          /\ current' = IF req[r].flag THEN {req[r].other} ELSE {}
      BY <2>0, <2>5 DEF Promote, ReadsHold, RequestInv
    <3>2. Rows' = Rows \ {i}
      BY <2>3, <3>1
    <3> QED
      BY <3>1, <3>2
  <2> QED
    BY <1>1, <2>1, <2>2, <2>4, <2>5
       DEF Next, Step, vars, Begin, Fail, AddBegin, AddRow, InsertFails, SetBegin, SetSelect,
           Switch, SwitchFails, RemoveBegin, DeleteCurrent, PromoteFails,
           DeadlockDetected
<1>2. GarageInv /\ SerialInv /\ [Next]_vars => [Promotion]_vars
  BY <1>1
<1> QED
  BY <1>2, SerialInvariant, PTL DEF Spec, NewestPromoted

=============================================================================
