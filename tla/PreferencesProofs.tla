------------------------- MODULE PreferencesProofs -------------------------
(***************************************************************************)
(* Theorems about Preferences.  What a request has loaded of a row is what *)
(* the row still holds, up to the columns and rows that others are known   *)
(* to have changed; from that, each answer is true of the table.  Requests *)
(* that do not overlap never fail.                                         *)
(***************************************************************************)
EXTENDS Preferences, TLAPS

RowType == [Columns -> Values]

\* What a request holds at each point of its way.
HoldsOf(q) ==
    /\ q.pc \in {"load", "put"} => q.wanted \in RowType
    /\ q.pc = "put" /\ q.loaded # NoProfile =>
          /\ profile # NoProfile
          /\ \A c \in Columns : c \in q.changed \/ profile[c] = q.loaded[c]
    /\ q.pc \in {"find", "save", "delete"} => q.bike \in Bikes
    /\ q.pc \in {"find", "save"} => q.note \in Notes
    /\ q.pc = "save" => q.bike \in q.changed \/ dream[q.bike] = q.dream
    /\ q.pc = "delete" =>
          /\ q.dream.row # 0
          /\ q.dream.row <= lastRow
          /\ \A b \in Bikes : dream[b].row = q.dream.row => b = q.bike

\* Ids are given out once.
RowsDiffer ==
    /\ \A b \in Bikes : dream[b].row <= lastRow
    /\ \A b, c \in Bikes : dream[b].row = dream[c].row /\ dream[b].row # 0 => b = c

PrefInv == TypeOK /\ RowsDiffer /\ \A r \in Requests : HoldsOf(req[r])

LEMMA IdleType == Idle \in RequestType /\ HoldsOf(Idle)
BY MaxRowsAssumption DEF Idle, RequestType, Rows, NoDream, HoldsOf

LEMMA PrefInit == Init => PrefInv
<1> SUFFICES ASSUME Init PROVE PrefInv
  OBVIOUS
<1>1. \A b \in Bikes : dream[b] = NoDream /\ NoDream.row = 0
  BY DEF Init, NoDream
<1>2. dream \in [Bikes -> Rows] /\ lastRow \in 0..MaxRows
  BY MaxRowsAssumption DEF Init, Rows, NoDream
<1>3. req \in [Requests -> RequestType] /\ \A r \in Requests : HoldsOf(req[r])
  BY IdleType DEF Init
<1>4. RowsDiffer
  BY <1>1 DEF Init, RowsDiffer
<1> QED
  BY <1>2, <1>3, <1>4 DEF Init, PrefInv, TypeOK

\* The types of the parts of a request.
LEMMA RequestParts ==
  ASSUME NEW q \in RequestType
  PROVE  /\ q.newUser \in BOOLEAN /\ q.wanted \in RowType \cup {NoProfile}
         /\ q.loaded \in RowType \cup {NoProfile} /\ q.dream \in Rows
         /\ q.dream.row \in 0..MaxRows /\ q.changed \subseteq Columns \cup Bikes
BY DEF RequestType, Rows, RowType

\* A step that writes no table moves one request; the others hold what they held.
LEMMA Moved ==
  ASSUME PrefInv, NEW r \in Requests, NEW q \in RequestType, HoldsOf(q),
         req' = [req EXCEPT ![r] = q], UNCHANGED <<user, profile, dream, lastRow>>,
         overlapped' \in BOOLEAN, failed' \in BOOLEAN
  PROVE  PrefInv'
<1>1. TypeOK'
  BY DEF PrefInv, TypeOK
<1>2. RowsDiffer'
  BY DEF PrefInv, RowsDiffer
<1>3. \A p \in Requests : HoldsOf(req[p])'
  <2> SUFFICES ASSUME NEW p \in Requests PROVE HoldsOf(req[p])'
    OBVIOUS
  <2>1. HoldsOf(req[p])
    BY DEF PrefInv
  <2>2. req'[p] = q \/ req'[p] = req[p]
    BY DEF PrefInv, TypeOK
  <2> QED
    BY <2>1, <2>2 DEF HoldsOf
<1> QED
  BY <1>1, <1>2, <1>3 DEF PrefInv

\* A commit of a replacement names the columns it changed to everybody else.
LEMMA PutCommitted ==
  ASSUME PrefInv, NEW r \in Requests, Put(r)
  PROVE  PrefInv'
<1> DEFINE S == IF profile = NoProfile THEN Columns
                ELSE {c \in Columns : profile'[c] # profile[c]}
<1>0. /\ req \in [Requests -> RequestType] /\ \A p \in Requests : HoldsOf(req[p])
      /\ profile \in RowType \cup {NoProfile} /\ NoProfile \notin RowType
      /\ user' = TRUE /\ dream' = dream /\ lastRow' = lastRow
      /\ overlapped' = overlapped /\ failed' = failed
      /\ req' = [q \in Requests |-> IF q = r THEN Idle
                                    ELSE [req[q] EXCEPT !.changed = @ \cup S]]
  BY NoProfileAssumption DEF PrefInv, TypeOK, Put, Commit, RowType
<1>1. req[r].wanted \in RowType /\ req[r].loaded \in RowType \cup {NoProfile}
  BY <1>0, RequestParts DEF Put, HoldsOf
<1>2. profile' \in RowType
  <2>1. CASE req[r].loaded = NoProfile
    BY <1>1, <2>1 DEF Put
  <2>2. CASE req[r].loaded # NoProfile
    <3>1. profile \in RowType
      BY <1>0, <2>2 DEF Put, HoldsOf
    <3> QED
      BY <1>1, <2>2, <3>1 DEF Put, Written, RowType
  <2> QED
    BY <2>1, <2>2
<1>3. \A p \in Requests \ {r} :
        /\ req'[p] \in RequestType
        /\ req'[p] = [req[p] EXCEPT !.changed = @ \cup S]
  <2> SUFFICES ASSUME NEW p \in Requests \ {r}
               PROVE  req'[p] \in RequestType /\ req'[p] = [req[p] EXCEPT !.changed = @ \cup S]
    OBVIOUS
  <2>1. S \subseteq Columns \cup Bikes
    OBVIOUS
  <2> HIDE DEF S
  <2>2. req[p] \in RequestType /\ req'[p] = [req[p] EXCEPT !.changed = @ \cup S]
    BY <1>0
  <2> QED
    BY <2>1, <2>2 DEF RequestType
<1>4. TypeOK'
  <2>1. req' \in [Requests -> RequestType]
    BY <1>0, <1>3, IdleType
  <2> QED
    BY <1>0, <1>2, <2>1 DEF PrefInv, TypeOK, RowType
<1>5. ASSUME NEW p \in Requests PROVE HoldsOf(req[p])'
  <2>1. CASE p = r
    BY <1>0, <2>1 DEF HoldsOf, Idle
  <2>2. CASE p # r
    <3>1. /\ req'[p].pc = req[p].pc /\ req'[p].wanted = req[p].wanted
          /\ req'[p].loaded = req[p].loaded /\ req'[p].bike = req[p].bike
          /\ req'[p].dream = req[p].dream /\ req'[p].note = req[p].note
          /\ req'[p].changed = req[p].changed \cup S
      BY <1>0, <1>3, <2>2 DEF RequestType
    <3>2. HoldsOf(req[p])
      BY <1>0
    <3>3. \A c \in Columns : profile = NoProfile \/ profile'[c] = profile[c] \/ c \in S
      OBVIOUS
    <3>4. profile' # NoProfile
      BY <1>0, <1>2
    <3> QED
      BY <1>0, <3>1, <3>2, <3>3, <3>4 DEF HoldsOf
  <2> QED
    BY <2>1, <2>2
<1> QED
  BY <1>0, <1>4, <1>5 DEF PrefInv, RowsDiffer

\* So does a commit that writes one variant's row: a new one, a new note, or none.
LEMMA DreamCommitted ==
  ASSUME PrefInv, NEW r \in Requests, NEW b \in Bikes, NEW S,
         S = {b} \/ (S = {} /\ dream' = dream),
         dream' \in [Bikes -> Rows], \A c \in Bikes \ {b} : dream'[c] = dream[c],
         lastRow' \in 0..MaxRows, lastRow <= lastRow', user' \in BOOLEAN, profile' = profile,
         \/ dream'[b].row = 0 \/ dream'[b].row = dream[b].row
         \/ lastRow < lastRow' /\ dream'[b].row = lastRow',
         Commit(r, S)
  PROVE  PrefInv'
<1>0. /\ req \in [Requests -> RequestType] /\ \A p \in Requests : HoldsOf(req[p])
      /\ RowsDiffer /\ TypeOK
      /\ overlapped' = overlapped /\ failed' = failed
      /\ req' = [q \in Requests |-> IF q = r THEN Idle
                                    ELSE [req[q] EXCEPT !.changed = @ \cup S]]
  BY DEF PrefInv, TypeOK, Commit
<1>1. \A p \in Requests \ {r} :
        /\ req'[p] \in RequestType
        /\ req'[p] = [req[p] EXCEPT !.changed = @ \cup S]
  <2> SUFFICES ASSUME NEW p \in Requests \ {r}
               PROVE  req'[p] \in RequestType /\ req'[p] = [req[p] EXCEPT !.changed = @ \cup S]
    OBVIOUS
  <2>1. S \subseteq Columns \cup Bikes
    OBVIOUS
  <2>2. req[p] \in RequestType /\ req'[p] = [req[p] EXCEPT !.changed = @ \cup S]
    BY <1>0
  <2> QED
    BY <2>1, <2>2 DEF RequestType
<1>2. TypeOK'
  <2>1. req' \in [Requests -> RequestType]
    BY <1>0, <1>1, IdleType
  <2> QED
    BY <1>0, <2>1 DEF TypeOK
<1>3. /\ lastRow \in Int /\ lastRow' \in Int
      /\ \A c \in Bikes : dream[c].row \in Nat /\ dream'[c].row \in Nat
  BY <1>0, MaxRowsAssumption DEF TypeOK, Rows
<1>4. RowsDiffer'
  BY <1>0, <1>3 DEF RowsDiffer
<1>5. ASSUME NEW p \in Requests PROVE HoldsOf(req[p])'
  <2>1. CASE p = r
    BY <1>0, <2>1 DEF HoldsOf, Idle
  <2>2. CASE p # r
    <3>1. /\ req'[p].pc = req[p].pc /\ req'[p].wanted = req[p].wanted
          /\ req'[p].loaded = req[p].loaded /\ req'[p].bike = req[p].bike
          /\ req'[p].dream = req[p].dream /\ req'[p].note = req[p].note
          /\ req'[p].changed = req[p].changed \cup S
      BY <1>0, <1>1, <2>2 DEF RequestType
    <3>2. HoldsOf(req[p]) /\ req[p].dream.row \in Nat
      BY <1>0, RequestParts, MaxRowsAssumption
    <3>3. req[p].pc = "save" =>
            req'[p].bike \in req'[p].changed \/ dream'[req'[p].bike] = req'[p].dream
      BY <3>1, <3>2 DEF HoldsOf
    <3>4. req[p].pc = "delete" =>
            /\ req'[p].dream.row # 0
            /\ req'[p].dream.row <= lastRow'
            /\ \A c \in Bikes : dream'[c].row = req'[p].dream.row => c = req'[p].bike
      BY <1>3, <3>1, <3>2 DEF HoldsOf
    <3> QED
      BY <3>1, <3>2, <3>3, <3>4 DEF HoldsOf
  <2> QED
    BY <2>1, <2>2
<1> QED
  BY <1>2, <1>4, <1>5 DEF PrefInv

LEMMA PrefStep == PrefInv /\ [Next]_vars => PrefInv'
<1> SUFFICES ASSUME PrefInv, [Next]_vars PROVE PrefInv'
  OBVIOUS
<1>0. /\ TypeOK /\ RowsDiffer /\ req \in [Requests -> RequestType]
      /\ profile \in RowType \cup {NoProfile} /\ dream \in [Bikes -> Rows]
      /\ overlapped \in BOOLEAN /\ failed \in BOOLEAN
      /\ \A r \in Requests : HoldsOf(req[r])
  BY DEF PrefInv, TypeOK, RowType
<1>1. ASSUME NEW r \in Requests, NEW p \in Payloads, PutBegin(r, p) PROVE PrefInv'
  <2> DEFINE w == Stripped(p)
             q == [Idle EXCEPT !.pc = "load", !.newUser = ~user, !.wanted = w]
  <2>1. w \in RowType
    BY PayloadAssumption DEF RowType, Stripped
  <2> HIDE DEF w
  <2>2. q \in RequestType /\ HoldsOf(q)
    BY <2>1, IdleType, NoProfileAssumption DEF RequestType, HoldsOf, Idle, RowType
  <2>3. req' = [req EXCEPT ![r] = q]
    BY <1>1 DEF PutBegin, Begin, w
  <2> QED
    BY <1>0, <1>1, <2>2, <2>3, Moved DEF PutBegin, Begin
<1>2. ASSUME NEW r \in Requests, PutLoad(r) PROVE PrefInv'
  <2> DEFINE q == [req[r] EXCEPT !.pc = "put", !.loaded = profile, !.changed = {}]
  <2>1. req' = [req EXCEPT ![r] = q]
    BY <1>0, <1>2 DEF PutLoad
  <2>2. q \in RequestType
    <3>1. req[r] \in RequestType /\ profile \in [Columns -> Values] \cup {NoProfile}
      BY <1>0 DEF RowType
    <3> QED
      BY <3>1 DEF RequestType
  <2>3. HoldsOf(q)
    BY <1>0, <1>2 DEF HoldsOf, PutLoad, RequestType
  <2> QED
    BY <1>0, <1>2, <2>1, <2>2, <2>3, Moved DEF PutLoad
<1>3. ASSUME NEW r \in Requests, NEW b \in Bikes, NEW n \in Notes, AddBegin(r, b, n)
      PROVE  PrefInv'
  <2> DEFINE q == [Idle EXCEPT !.pc = "find", !.newUser = ~user, !.bike = b, !.note = n]
  <2>1. q \in RequestType /\ HoldsOf(q)
    BY IdleType DEF RequestType, HoldsOf, Idle
  <2> QED
    BY <1>0, <1>3, <2>1, Moved DEF AddBegin, Begin
<1>4. ASSUME NEW r \in Requests, AddFind(r) PROVE PrefInv'
  <2> DEFINE q == [req[r] EXCEPT !.pc = "save", !.dream = dream[req[r].bike],
                                 !.changed = {}]
  <2>1. req' = [req EXCEPT ![r] = q] /\ req[r].bike \in Bikes
    BY <1>0, <1>4 DEF AddFind, HoldsOf
  <2>2. q \in RequestType
    <3>1. req[r] \in RequestType /\ dream[req[r].bike] \in Rows
      BY <1>0, <2>1
    <3> QED
      BY <3>1 DEF RequestType
  <2>3. HoldsOf(q)
    BY <1>0, <1>4, <2>1 DEF HoldsOf, AddFind, RequestType
  <2> QED
    BY <1>0, <1>4, <2>1, <2>2, <2>3, Moved DEF AddFind
<1>5. ASSUME NEW r \in Requests, NEW b \in Bikes, RemoveBegin(r, b) PROVE PrefInv'
  <2> DEFINE q == [Idle EXCEPT !.pc = "delete", !.bike = b, !.dream = dream[b]]
  <2>1. q \in RequestType
    BY <1>0, IdleType DEF RequestType, Idle
  <2>2. HoldsOf(q)
    BY <1>0, <1>5 DEF HoldsOf, RemoveBegin, RowsDiffer, Idle
  <2> QED
    BY <1>0, <1>5, <2>1, <2>2, Moved DEF RemoveBegin, Begin
<1>6. ASSUME NEW r \in Requests, Fail(r) PROVE PrefInv'
  BY <1>0, <1>6, IdleType, Moved DEF Fail
<1>7. ASSUME NEW r \in Requests, Put(r) PROVE PrefInv'
  BY <1>7, PutCommitted
<1>8. ASSUME NEW r \in Requests, Insert(r) PROVE PrefInv'
  <2> DEFINE b == req[r].bike
             row == [row |-> lastRow + 1, note |-> req[r].note]
  <2>1. b \in Bikes /\ req[r].note \in Notes
    BY <1>0, <1>8 DEF Insert, HoldsOf
  <2>2. lastRow + 1 \in 0..MaxRows /\ lastRow < lastRow + 1 /\ lastRow <= lastRow + 1
    BY <1>0, <1>8, MaxRowsAssumption DEF Insert, TypeOK
  <2>3. /\ dream' \in [Bikes -> Rows] /\ dream'[b] = row
        /\ \A c \in Bikes \ {b} : dream'[c] = dream[c]
    BY <1>0, <1>8, <2>1, <2>2 DEF Insert, Rows
  <2> QED
    BY <1>8, <2>1, <2>2, <2>3, DreamCommitted DEF Insert
<1>9. ASSUME NEW r \in Requests, Refresh(r) PROVE PrefInv'
  <2> DEFINE b == req[r].bike
             S == IF dream' # dream THEN {b} ELSE {}
  <2>1. b \in Bikes /\ req[r].note \in Notes /\ lastRow \in 0..MaxRows /\ lastRow <= lastRow
    BY <1>0, <1>9, MaxRowsAssumption DEF Refresh, HoldsOf, TypeOK
  <2>2. /\ dream' \in [Bikes -> Rows] /\ dream'[b].row = dream[b].row
        /\ \A c \in Bikes \ {b} : dream'[c] = dream[c]
    BY <1>0, <1>9, <2>1 DEF Refresh, Noted, Rows
  <2>3. Commit(r, S) /\ (S = {b} \/ (S = {} /\ dream' = dream))
    BY <1>9 DEF Refresh
  <2> QED
    BY <1>9, <2>1, <2>2, <2>3, DreamCommitted DEF Refresh
<1>10. ASSUME NEW r \in Requests, Remove(r) PROVE PrefInv'
  <2> DEFINE b == req[r].bike
             S == IF dream' # dream THEN {b} ELSE {}
  <2>1. b \in Bikes /\ lastRow \in 0..MaxRows /\ lastRow <= lastRow /\ user \in BOOLEAN
    BY <1>0, <1>10, MaxRowsAssumption DEF Remove, HoldsOf, TypeOK
  <2>2. /\ dream' \in [Bikes -> Rows]
        /\ dream'[b].row = 0 \/ dream'[b].row = dream[b].row
        /\ \A c \in Bikes \ {b} : dream'[c] = dream[c]
    BY <1>0, <1>10, <2>1, MaxRowsAssumption DEF Remove, Without, Rows, NoDream
  <2>3. Commit(r, S) /\ (S = {b} \/ (S = {} /\ dream' = dream))
    BY <1>10 DEF Remove
  <2> QED
    BY <1>10, <2>1, <2>2, <2>3, DreamCommitted DEF Remove
<1>11. ASSUME UNCHANGED vars PROVE PrefInv'
  BY <1>0, <1>11 DEF vars, PrefInv, TypeOK, RowsDiffer, HoldsOf
<1> QED
  BY <1>1, <1>2, <1>3, <1>4, <1>5, <1>6, <1>7, <1>8, <1>9, <1>10, <1>11
     DEF Next, Step, PutFails, AddFails

LEMMA PrefInvariant == Spec => []PrefInv
BY PrefInit, PrefStep, PTL DEF Spec

\* The shape of every variable, for any number of requests.
THEOREM PreferencesTypeCorrect == Spec => []TypeOK
<1>1. PrefInv => TypeOK
  BY DEF PrefInv
<1> QED
  BY <1>1, PrefInvariant, PTL

\* A replacement leaves its payload in every column that nobody else changed since
\* it loaded the row.
THEOREM ReplacementsReplace == Spec => PutReplaces
<1> DEFINE Replaces == \A r \in Requests : Put(r) =>
              \A c \in Columns : profile'[c] = req[r].wanted[c] \/ c \in req[r].changed
<1>1. ASSUME PrefInv PROVE Replaces
  <2> SUFFICES ASSUME NEW r \in Requests, Put(r), NEW c \in Columns
               PROVE  profile'[c] = req[r].wanted[c] \/ c \in req[r].changed
    OBVIOUS
  <2>1. HoldsOf(req[r])
    BY <1>1 DEF PrefInv
  <2>2. CASE req[r].loaded = NoProfile
    BY <2>2 DEF Put
  <2>3. CASE req[r].loaded # NoProfile
    BY <2>1, <2>3 DEF Put, Written, HoldsOf
  <2> QED
    BY <2>2, <2>3
<1>2. PrefInv /\ [Next]_vars => [Replaces]_vars
  BY <1>1
<1> QED
  BY <1>2, PrefInvariant, PTL DEF Spec, PutReplaces

\* An add that is answered has its variant listed with its note, unless another
\* request changed the row after the add had looked for it.
THEOREM AddsAreListed == Spec => AddIsListed
<1> DEFINE Listed == \A r \in Requests : Insert(r) \/ Refresh(r) =>
              LET b == req[r].bike IN
              \/ b \in req[r].changed
              \/ dream'[b].row # 0 /\ dream'[b].note = req[r].note
<1>1. ASSUME PrefInv PROVE Listed
  <2> SUFFICES ASSUME NEW r \in Requests, Insert(r) \/ Refresh(r)
               PROVE  \/ req[r].bike \in req[r].changed
                      \/ /\ dream'[req[r].bike].row # 0
                         /\ dream'[req[r].bike].note = req[r].note
    OBVIOUS
  <2>1. /\ req[r].bike \in Bikes /\ dream \in [Bikes -> Rows] /\ lastRow \in Nat
        /\ req[r].bike \in req[r].changed \/ dream[req[r].bike] = req[r].dream
    BY <1>1, MaxRowsAssumption DEF PrefInv, TypeOK, HoldsOf, Insert, Refresh
  <2>2. CASE Insert(r)
    BY <2>1, <2>2 DEF Insert
  <2>3. CASE Refresh(r)
    BY <2>1, <2>3 DEF Refresh, Noted, Rows
  <2> QED
    BY <2>2, <2>3
<1>2. PrefInv /\ [Next]_vars => [Listed]_vars
  BY <1>1
<1> QED
  BY <1>2, PrefInvariant, PTL DEF Spec, AddIsListed

\* A removal takes the row it was asked for, and no other.
THEOREM RemovalsAreExact == Spec => RemovalIsExact
<1> DEFINE Exact == \A r \in Requests : Remove(r) =>
              \A b \in Bikes :
                 /\ dream'[b].row # req[r].dream.row
                 /\ dream[b].row # req[r].dream.row => dream'[b] = dream[b]
<1>1. ASSUME PrefInv PROVE Exact
  <2> SUFFICES ASSUME NEW r \in Requests, Remove(r), NEW b \in Bikes
               PROVE  /\ dream'[b].row # req[r].dream.row
                      /\ dream[b].row # req[r].dream.row => dream'[b] = dream[b]
    OBVIOUS
  <2>1. /\ req[r].bike \in Bikes /\ dream \in [Bikes -> Rows] /\ req[r].dream.row # 0
        /\ \A c \in Bikes : dream[c].row = req[r].dream.row => c = req[r].bike
    BY <1>1 DEF PrefInv, TypeOK, HoldsOf, Remove
  <2> QED
    BY <2>1 DEF Remove, Without, NoDream
<1>2. PrefInv /\ [Next]_vars => [Exact]_vars
  BY <1>1
<1> QED
  BY <1>2, PrefInvariant, PTL DEF Spec, RemovalIsExact

-----------------------------------------------------------------------------
(* Requests that do not overlap *)

\* Nothing changes under a request that is alone.
AloneHolds(q) ==
    /\ q.pc # "idle" => (q.newUser => ~user)
    /\ q.pc = "put" => q.loaded = profile
    /\ q.pc = "save" => q.dream = dream[q.bike]

AloneInv ==
    overlapped \/ /\ ~failed
                  /\ \A r, q \in Requests : req[r].pc = "idle" \/ req[q].pc = "idle" \/ r = q
                  /\ \A r \in Requests : AloneHolds(req[r])

LEMMA AloneInit == Init => AloneInv
BY DEF Init, AloneInv, AloneHolds, Idle

LEMMA AloneStep == PrefInv /\ AloneInv /\ [Next]_vars => AloneInv'
<1> SUFFICES ASSUME PrefInv, AloneInv, [Next]_vars, ~overlapped' PROVE AloneInv'
  BY DEF AloneInv
<1>0. /\ req \in [Requests -> RequestType] /\ \A r \in Requests : HoldsOf(req[r])
  BY DEF PrefInv, TypeOK
<1>a. ~overlapped
  <2>1. CASE UNCHANGED vars
    BY <2>1 DEF vars
  <2> QED
    BY <2>1 DEF Next, Step, PutBegin, AddBegin, RemoveBegin, Begin, PutLoad, Put, PutFails,
         AddFind, Insert, Refresh, AddFails, Remove, Commit, Fail
<1>b. /\ ~failed
      /\ \A r, q \in Requests : req[r].pc = "idle" \/ req[q].pc = "idle" \/ r = q
      /\ \A r \in Requests : AloneHolds(req[r])
  BY <1>a DEF AloneInv
\* A request that begins, alone.
<1>1. ASSUME NEW r \in Requests, NEW q, Begin(r, q), AloneHolds(q) PROVE AloneInv'
  <2>1. \A p \in Requests \ {r} : req[p].pc = "idle" /\ req'[p] = req[p]
    BY <1>0, <1>1 DEF Begin
  <2>2. req'[r] = q
    BY <1>0, <1>1 DEF Begin
  <2>3. \A p \in Requests : AloneHolds(req[p])'
    BY <1>1, <1>b, <2>1, <2>2 DEF AloneHolds, Begin
  <2> QED
    BY <1>1, <1>b, <2>1, <2>3 DEF Begin, AloneInv
\* A request on its way, alone.
<1>2. ASSUME NEW r \in Requests, req[r].pc # "idle", NEW q, req' = [req EXCEPT ![r] = q],
             AloneHolds(q), UNCHANGED <<user, profile, dream, failed>>
      PROVE  AloneInv'
  <2>1. \A p \in Requests \ {r} : req[p].pc = "idle" /\ req'[p] = req[p]
    BY <1>0, <1>2, <1>b
  <2>2. req'[r] = q
    BY <1>0, <1>2
  <2>3. \A p \in Requests : AloneHolds(req[p])'
    BY <1>2, <1>b, <2>1, <2>2 DEF AloneHolds
  <2> QED
    BY <1>2, <1>b, <2>1, <2>3 DEF AloneInv
\* A request that ends, alone.
<1>3. ASSUME NEW r \in Requests, req[r].pc # "idle", NEW S, Commit(r, S) PROVE AloneInv'
  <2>1. \A p \in Requests \ {r} : req[p].pc = "idle"
    BY <1>3, <1>b
  <2>2. \A p \in Requests : req'[p].pc = "idle"
    BY <1>0, <1>3, <2>1 DEF Commit, Idle, RequestType
  <2> QED
    BY <1>3, <1>b, <2>2 DEF Commit, AloneInv, AloneHolds
<1>4. ASSUME NEW r \in Requests, NEW p \in Payloads, PutBegin(r, p) PROVE AloneInv'
  <2> DEFINE q == [Idle EXCEPT !.pc = "load", !.newUser = ~user, !.wanted = Stripped(p)]
  <2>1. AloneHolds(q)
    BY DEF AloneHolds, Idle
  <2> QED
    BY <1>1, <1>4, <2>1 DEF PutBegin
<1>5. ASSUME NEW r \in Requests, NEW b \in Bikes, NEW n \in Notes, AddBegin(r, b, n)
      PROVE  AloneInv'
  <2> DEFINE q == [Idle EXCEPT !.pc = "find", !.newUser = ~user, !.bike = b, !.note = n]
  <2>1. AloneHolds(q)
    BY DEF AloneHolds, Idle
  <2> QED
    BY <1>1, <1>5, <2>1 DEF AddBegin
<1>6. ASSUME NEW r \in Requests, NEW b \in Bikes, RemoveBegin(r, b) PROVE AloneInv'
  <2> DEFINE q == [Idle EXCEPT !.pc = "delete", !.bike = b, !.dream = dream[b]]
  <2>1. AloneHolds(q)
    BY DEF AloneHolds, Idle
  <2> QED
    BY <1>1, <1>6, <2>1 DEF RemoveBegin
<1>7. ASSUME NEW r \in Requests, PutLoad(r) PROVE AloneInv'
  <2> DEFINE q == [req[r] EXCEPT !.pc = "put", !.loaded = profile, !.changed = {}]
  <2>1. req' = [req EXCEPT ![r] = q] /\ req[r].pc # "idle"
    BY <1>0, <1>7 DEF PutLoad
  <2>2. AloneHolds(q)
    BY <1>0, <1>7, <1>b DEF AloneHolds, PutLoad, RequestType
  <2> QED
    BY <1>2, <1>7, <2>1, <2>2 DEF PutLoad
<1>8. ASSUME NEW r \in Requests, AddFind(r) PROVE AloneInv'
  <2> DEFINE q == [req[r] EXCEPT !.pc = "save", !.dream = dream[req[r].bike],
                                 !.changed = {}]
  <2>1. req' = [req EXCEPT ![r] = q] /\ req[r].pc # "idle"
    BY <1>0, <1>8 DEF AddFind
  <2>2. AloneHolds(q)
    BY <1>0, <1>8, <1>b DEF AloneHolds, AddFind, RequestType
  <2> QED
    BY <1>2, <1>8, <2>1, <2>2 DEF AddFind
<1>9. ASSUME NEW r \in Requests, Put(r) \/ Insert(r) \/ Refresh(r) \/ Remove(r)
      PROVE  AloneInv'
  <2>1. req[r].pc # "idle" /\ \E S : Commit(r, S)
    BY <1>9 DEF Put, Insert, Refresh, Remove
  <2> QED
    BY <1>3, <2>1
<1>10. ASSUME NEW r \in Requests, PutFails(r) PROVE FALSE
  BY <1>10, <1>b DEF PutFails, PutConflicts, UserConflicts, AloneHolds
<1>11. ASSUME NEW r \in Requests, AddFails(r) PROVE FALSE
  BY <1>11, <1>b DEF AddFails, AddConflicts, UserConflicts, AloneHolds
<1>12. ASSUME UNCHANGED vars PROVE AloneInv'
  BY <1>12, <1>b DEF vars, AloneInv, AloneHolds
<1> QED
  BY <1>4, <1>5, <1>6, <1>7, <1>8, <1>9, <1>10, <1>11, <1>12 DEF Next, Step

\* Only requests that overlap fail.
THEOREM OnlyOverlapsFail == Spec => []FailuresOverlap
<1>1. AloneInv => FailuresOverlap
  BY DEF AloneInv, FailuresOverlap
<1> QED
  BY <1>1, AloneInit, AloneStep, PrefInvariant, PTL DEF Spec

=============================================================================
