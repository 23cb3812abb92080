----------------------------- MODULE Preferences -----------------------------
(***************************************************************************)
(* The stored preferences and the dream bikes of backend/app/profile: the  *)
(* profiles row that PUT /profile replaces, the dream_bikes rows under     *)
(* their unique constraint, and the users row the first write creates.     *)
(*                                                                         *)
(* Each request runs in a transaction of its own at READ COMMITTED and     *)
(* writes at its commit what the ORM finds changed: an update names only   *)
(* the columns whose value differs from the one loaded.  What a request    *)
(* has loaded is kept in its record.  A payload that the validation        *)
(* refuses touches nothing and is left out, and so are the reads.          *)
(***************************************************************************)
EXTENDS Integers

CONSTANTS
    Columns,    \* unit_system, market, riding_style, priority_factors
    Values,     \* what a column may hold
    Texts,      \* what a payload may say of a column
    Clean,      \* the value a text is stripped to
    Payloads,   \* payloads the validation accepts
    Bikes,      \* catalog variants
    Notes,      \* stripped notes of dream bikes
    Requests,   \* threads serving requests
    NoProfile,  \* no row in profiles
    MaxRows     \* bound: dream bike rows ever inserted

ASSUME PayloadAssumption ==
    /\ Clean \in [Texts -> Values]
    /\ Payloads \subseteq [Columns -> Texts]

ASSUME MaxRowsAssumption == MaxRows \in Nat

NoDream == [row |-> 0, note |-> "none"]

ASSUME NoProfileAssumption == NoProfile \notin [Columns -> Values]

VARIABLES
    user,       \* the users row exists
    profile,    \* the profiles row, or NoProfile
    dream,      \* dream_bikes: the row of each variant, or NoDream
    lastRow,    \* the newest dream bike id given out
    req,        \* what each request is doing
    overlapped, \* two requests have been in progress at the same time
    failed      \* a request was answered with a server error

vars == <<user, profile, dream, lastRow, req, overlapped, failed>>

\* `changed` is what others have committed since the request loaded its row.
Idle == [pc |-> "idle", newUser |-> FALSE, wanted |-> NoProfile, loaded |-> NoProfile,
         bike |-> "none", dream |-> NoDream, note |-> "none", changed |-> {}]

Init ==
    /\ user = FALSE
    /\ profile = NoProfile
    /\ dream = [b \in Bikes |-> NoDream]
    /\ lastRow = 0
    /\ req = [r \in Requests |-> Idle]
    /\ overlapped = FALSE
    /\ failed = FALSE

Begin(r, record) ==
    /\ req[r].pc = "idle"
    /\ req' = [req EXCEPT ![r] = record]
    /\ overlapped' = (overlapped \/ \E q \in Requests \ {r} : req[q].pc # "idle")
    /\ UNCHANGED <<user, profile, dream, lastRow, failed>>

\* Request r commits a change of S and is answered.
Commit(r, S) ==
    /\ req' = [q \in Requests |-> IF q = r THEN Idle
                                  ELSE [req[q] EXCEPT !.changed = @ \cup S]]
    /\ UNCHANGED <<overlapped, failed>>

\* The session is closed with an exception: its transaction is rolled back.
Fail(r) ==
    /\ req' = [req EXCEPT ![r] = Idle]
    /\ failed' = TRUE
    /\ UNCHANGED <<user, profile, dream, lastRow, overlapped>>

\* _ensure_user met a users row that another request inserted meanwhile.
UserConflicts(r) == req[r].newUser /\ user

-----------------------------------------------------------------------------
(* update_profile *)

\* Mutant of Stripped: nothing is stripped.
Unstripped(p) == p

\* What is stored of a payload that _validate_priority_factors accepts.
Stripped(p) == [c \in Columns |-> Clean[p[c]]]

\* Validation and _ensure_user.
PutBegin(r, p) ==
    Begin(r, [Idle EXCEPT !.pc = "load", !.newUser = ~user, !.wanted = Stripped(p)])

\* Mutant of PutLoad: the row is not looked for.
PutLoadNothing(r) ==
    /\ req[r].pc = "load"
    /\ req' = [req EXCEPT ![r].pc = "put", ![r].loaded = NoProfile, ![r].changed = {}]
    /\ UNCHANGED <<user, profile, dream, lastRow, overlapped, failed>>

PutLoad(r) ==
    /\ req[r].pc = "load"
    /\ req' = [req EXCEPT ![r].pc = "put", ![r].loaded = profile, ![r].changed = {}]
    /\ UNCHANGED <<user, profile, dream, lastRow, overlapped, failed>>

\* Mutant of Written: a column the payload leaves empty is kept, as a PATCH would.
WrittenUnlessEmpty(r) ==
    [c \in Columns |-> IF req[r].wanted[c] # "none" THEN req[r].wanted[c]
                                                    ELSE profile[c]]

\* The row after the UPDATE of the columns that differ from the loaded ones.
Written(r) ==
    [c \in Columns |-> IF req[r].wanted[c] # req[r].loaded[c] THEN req[r].wanted[c]
                                                              ELSE profile[c]]

PutConflicts(r) ==
    \/ UserConflicts(r)
    \/ req[r].loaded = NoProfile /\ profile # NoProfile

Put(r) ==
    /\ req[r].pc = "put"
    /\ ~PutConflicts(r)
    /\ user' = TRUE
    /\ profile' = IF req[r].loaded = NoProfile THEN req[r].wanted ELSE Written(r)
    /\ Commit(r, IF profile = NoProfile THEN Columns
                 ELSE {c \in Columns : profile'[c] # profile[c]})
    /\ UNCHANGED <<dream, lastRow>>

PutFails(r) ==
    /\ req[r].pc = "put"
    /\ PutConflicts(r)
    /\ Fail(r)

-----------------------------------------------------------------------------
(* add_dream_bike *)

AddBegin(r, b, n) ==
    Begin(r, [Idle EXCEPT !.pc = "find", !.newUser = ~user, !.bike = b, !.note = n])

AddFind(r) ==
    /\ req[r].pc = "find"
    /\ req' = [req EXCEPT ![r].pc = "save", ![r].dream = dream[req[r].bike],
                          ![r].changed = {}]
    /\ UNCHANGED <<user, profile, dream, lastRow, overlapped, failed>>

\* The unique constraint refuses a second row of a variant, and an update of the
\* note finds the row it loaded gone.
AddConflicts(r) ==
    LET b == req[r].bike
        found == req[r].dream
    IN
    \/ UserConflicts(r)
    \/ found.row = 0 /\ dream[b].row # 0
    \/ found.row # 0 /\ found.note # req[r].note /\ dream[b].row # found.row

\* A first add inserts the row.
Insert(r) ==
    /\ req[r].pc = "save"
    /\ req[r].dream.row = 0
    /\ ~AddConflicts(r)
    /\ lastRow < MaxRows
    /\ lastRow' = lastRow + 1
    /\ dream' = [dream EXCEPT ![req[r].bike] = [row |-> lastRow + 1, note |-> req[r].note]]
    /\ user' = TRUE
    /\ Commit(r, {req[r].bike})
    /\ UNCHANGED profile

\* Mutant of Noted: a note is written only where there was none.
NotedOnce(r) ==
    LET b == req[r].bike IN
    IF req[r].dream.note = "none" THEN [dream EXCEPT ![b].note = req[r].note] ELSE dream

\* A repeat add writes the note, if it differs from the one it loaded.
Noted(r) ==
    LET b == req[r].bike IN
    IF req[r].dream.note # req[r].note THEN [dream EXCEPT ![b].note = req[r].note] ELSE dream

Refresh(r) ==
    /\ req[r].pc = "save"
    /\ req[r].dream.row # 0
    /\ ~AddConflicts(r)
    /\ dream' = Noted(r)
    /\ user' = TRUE
    /\ Commit(r, IF dream' # dream THEN {req[r].bike} ELSE {})
    /\ UNCHANGED <<profile, lastRow>>

AddFails(r) ==
    /\ req[r].pc = "save"
    /\ AddConflicts(r)
    /\ Fail(r)

-----------------------------------------------------------------------------
(* remove_dream_bike *)

\* Only a stored row is found; any other id is answered with 404.
RemoveBegin(r, b) ==
    /\ dream[b].row # 0
    /\ Begin(r, [Idle EXCEPT !.pc = "delete", !.bike = b, !.dream = dream[b]])

\* Mutant of Without: the variant's row goes, whichever it is now.
WithoutVariant(r) == [dream EXCEPT ![req[r].bike] = NoDream]

\* The loaded row is deleted by its id: if another request has removed it, the
\* statement matches nothing and the ORM only warns.
Without(r) ==
    [dream EXCEPT ![req[r].bike] = IF @.row = req[r].dream.row THEN NoDream ELSE @]

Remove(r) ==
    /\ req[r].pc = "delete"
    /\ dream' = Without(r)
    /\ Commit(r, IF dream' # dream THEN {req[r].bike} ELSE {})
    /\ UNCHANGED <<user, profile, lastRow>>

-----------------------------------------------------------------------------

Step(r) ==
    \/ PutLoad(r) \/ Put(r) \/ PutFails(r)
    \/ AddFind(r) \/ Insert(r) \/ Refresh(r) \/ AddFails(r)
    \/ Remove(r)

Next ==
    \/ \E r \in Requests, p \in Payloads : PutBegin(r, p)
    \/ \E r \in Requests, b \in Bikes, n \in Notes : AddBegin(r, b, n)
    \/ \E r \in Requests, b \in Bikes : RemoveBegin(r, b)
    \/ \E r \in Requests : Step(r)

Spec == Init /\ [][Next]_vars

-----------------------------------------------------------------------------
(* Properties *)

Rows == [row : 0..MaxRows, note : Notes \cup {"none"}]

RequestType ==
    [pc : {"idle", "load", "put", "find", "save", "delete"}, newUser : BOOLEAN,
     wanted : [Columns -> Values] \cup {NoProfile},
     loaded : [Columns -> Values] \cup {NoProfile},
     bike : Bikes \cup {"none"}, dream : Rows, note : Notes \cup {"none"},
     changed : SUBSET (Columns \cup Bikes)]

\* The shape of every variable.
TypeOK ==
    /\ user \in BOOLEAN
    /\ profile \in [Columns -> Values] \cup {NoProfile}
    /\ dream \in [Bikes -> Rows]
    /\ lastRow \in 0..MaxRows
    /\ req \in [Requests -> RequestType]
    /\ overlapped \in BOOLEAN
    /\ failed \in BOOLEAN

\* A replacement leaves exactly its payload in the row, except in columns that
\* another replacement changed after this one had loaded them: alone it replaces
\* the whole of it (service.py:51-63).
PutReplaces ==
    [][\A r \in Requests : Put(r) =>
          \A c \in Columns : profile'[c] = req[r].wanted[c] \/ c \in req[r].changed]_vars

\* An add that is answered has its variant listed with the note it gave, and only a
\* removal or an add that committed meanwhile can keep it from that
\* (service.py:147-161).
AddIsListed ==
    [][\A r \in Requests : Insert(r) \/ Refresh(r) =>
          LET b == req[r].bike IN
          \/ b \in req[r].changed
          \/ dream'[b].row # 0 /\ dream'[b].note = req[r].note]_vars

\* A removal takes away the row it was asked for and no row that came later: a
\* variant that was removed and added again keeps its place (service.py:165-170).
RemovalIsExact ==
    [][\A r \in Requests : Remove(r) =>
          \A b \in Bikes :
             /\ dream'[b].row # req[r].dream.row
             /\ dream[b].row # req[r].dream.row => dream'[b] = dream[b]]_vars

\* Only requests that overlap meet the constraints or a row that is gone: served
\* one after the other, none is answered with a server error (service.py:173-176).
FailuresOverlap == failed => overlapped

=============================================================================
