------------------------------- MODULE Garage -------------------------------
(***************************************************************************)
(* The garage of backend/app/profile: garage_bikes (models.py) under its   *)
(* two unique indexes, and the requests that add a bike, choose the        *)
(* current one and remove one (service.py).  V1 has one user, whose row    *)
(* the first write creates.                                                *)
(*                                                                         *)
(* Each request runs in a transaction of its own at READ COMMITTED: a      *)
(* query sees what others have committed, a statement on a row that        *)
(* another transaction has deleted waits for it, and nothing is visible    *)
(* before the commit.  What a request has loaded is kept in its record.    *)
(* A nickname is refreshed by a repeat add and read by nobody else, so it  *)
(* is left out, and so is what an answer reads after the commit.           *)
(***************************************************************************)
EXTENDS Integers

CONSTANTS
    Bikes,      \* catalog variants
    Requests,   \* threads serving requests
    MaxRows     \* bound: garage rows ever inserted

ASSUME MaxRowsAssumption == MaxRows \in Nat

Ids == 1..MaxRows

None == 0       \* no row
NoBike == "no bike"

ASSUME NoBikeAssumption == NoBike \notin Bikes

VARIABLES
    bikeOf,     \* garage_bikes.motorcycle_id of each row, NoBike without a row
    current,    \* the rows with is_current
    lastId,     \* the newest row id given out
    user,       \* the users row exists
    req,        \* what each request is doing
    overlapped, \* two requests have been in progress at the same time
    failed      \* a request was answered with a server error

vars == <<bikeOf, current, lastId, user, req, overlapped, failed>>

Rows == {i \in Ids : bikeOf[i] # NoBike}

\* Mutant of Newest: ascending order.
Oldest(S) == IF S = {} THEN None ELSE CHOOSE i \in S : \A j \in S : i <= j

\* order_by(added_at.desc(), id.desc()).first()
Newest(S) == IF S = {} THEN None ELSE CHOOSE i \in S : \A j \in S : j <= i

Idle == [pc |-> "idle", row |-> None, bike |-> NoBike, other |-> None, flag |-> FALSE]

Init ==
    /\ bikeOf = [i \in Ids |-> NoBike]
    /\ current = {}
    /\ lastId = 0
    /\ user = FALSE
    /\ req = [r \in Requests |-> Idle]
    /\ overlapped = FALSE
    /\ failed = FALSE

\* A request arrives; nothing is written yet.
Begin(r, q) ==
    /\ req[r].pc = "idle"
    /\ req' = [req EXCEPT ![r] = q]
    /\ overlapped' = (overlapped \/ \E p \in Requests \ {r} : req[p].pc # "idle")
    /\ UNCHANGED <<bikeOf, current, lastId, user, failed>>

\* A request ends with an exception: its transaction is rolled back.
Fail(r) ==
    /\ req' = [req EXCEPT ![r] = Idle]
    /\ failed' = TRUE
    /\ UNCHANGED <<bikeOf, current, lastId, user, overlapped>>

\* Another transaction has deleted the row and not yet committed.
Locked(i, r) ==
    \E q \in Requests \ {r} : req[q].pc = "promote" /\ req[q].row = i /\ i \in Rows

-----------------------------------------------------------------------------
(* add_garage_bike *)

\* _ensure_user, then the lookup of the variant; `flag` says that the request
\* inserts the user.  A repeat add finds its row and changes the nickname only.
AddBegin(r, b) ==
    /\ lastId < MaxRows
    /\ \A i \in Rows : bikeOf[i] # b
    /\ Begin(r, [Idle EXCEPT !.pc = "add", !.bike = b, !.flag = ~user])

\* The new row is current if the garage has no current bike; added_at is read.
AddRow(r) ==
    /\ req[r].pc = "add"
    /\ lastId < MaxRows
    /\ lastId' = lastId + 1
    /\ req' = [req EXCEPT ![r].pc = "insert", ![r].row = lastId + 1,
                          ![r].other = Newest(current)]
    /\ UNCHANGED <<bikeOf, current, user, overlapped, failed>>

\* Mutant of Conflicts: the partial index on the current bike is missing.
ConflictsWithoutPartialIndex(r) ==
    \/ req[r].flag /\ user
    \/ \E i \in Rows : bikeOf[i] = req[r].bike

\* The unique constraints, as the insert meets them.
Conflicts(r) ==
    \/ req[r].flag /\ user
    \/ \E i \in Rows : bikeOf[i] = req[r].bike
    \/ req[r].other = None /\ current # {}

Insert(r) ==
    /\ req[r].pc = "insert"
    /\ ~Conflicts(r)
    /\ bikeOf' = [bikeOf EXCEPT ![req[r].row] = req[r].bike]
    /\ current' = IF req[r].other = None THEN current \cup {req[r].row} ELSE current
    /\ user' = TRUE
    /\ req' = [req EXCEPT ![r] = Idle]
    /\ UNCHANGED <<lastId, overlapped, failed>>

InsertFails(r) ==
    /\ req[r].pc = "insert"
    /\ Conflicts(r)
    /\ Fail(r)

-----------------------------------------------------------------------------
(* set_current_garage_bike *)

\* A row that is current already is left alone.
SetBegin(r, i) ==
    /\ i \in Rows \ current
    /\ Begin(r, [Idle EXCEPT !.pc = "set", !.row = i])

SetSelect(r) ==
    /\ req[r].pc = "set"
    /\ req' = [req EXCEPT ![r].pc = "switch", ![r].other = Newest(current)]
    /\ UNCHANGED <<bikeOf, current, lastId, user, overlapped, failed>>

\* Mutant of Cleared: the old row is cleared after the new one was set.
ClearedLater(r) == current

\* The current rows after the first flush, which clears the old current row.  If
\* the query returned the request's own row, the session still holds it as not
\* current and writes nothing.
Cleared(r) == current \ ({req[r].other} \ {req[r].row})

\* A flush finds its row deleted, or the partial index another current row.
SwitchConflicts(r) ==
    \/ req[r].other \notin Rows \cup {None}
    \/ req[r].row \notin Rows
    \/ Cleared(r) \ {req[r].row} # {}

SwitchUnlocked(r) == ~Locked(req[r].row, r) /\ ~Locked(req[r].other, r)

Switch(r) ==
    /\ req[r].pc = "switch"
    /\ SwitchUnlocked(r)
    /\ ~SwitchConflicts(r)
    /\ current' = Cleared(r) \cup {req[r].row}
    /\ req' = [req EXCEPT ![r] = Idle]
    /\ UNCHANGED <<bikeOf, lastId, user, overlapped, failed>>

SwitchFails(r) ==
    /\ req[r].pc = "switch"
    /\ SwitchUnlocked(r)
    /\ SwitchConflicts(r)
    /\ Fail(r)

-----------------------------------------------------------------------------
(* remove_garage_bike *)

\* `flag` is was_current.
RemoveBegin(r, i) ==
    /\ i \in Rows
    /\ Begin(r, [Idle EXCEPT !.pc = "delete", !.row = i, !.flag = i \in current])

Removed(i) == [bikeOf EXCEPT ![i] = NoBike]

\* Mutant of Delete: was_current is not looked at.
DeleteAny(r) ==
    LET i == req[r].row IN
    /\ req[r].pc = "delete"
    /\ ~Locked(i, r)
    /\ bikeOf' = Removed(i)
    /\ current' = current \ {i}
    /\ req' = [req EXCEPT ![r] = Idle]
    /\ UNCHANGED <<lastId, user, overlapped, failed>>

\* The request loaded the bike as not current: its row goes, and nothing else.
Delete(r) ==
    LET i == req[r].row IN
    /\ req[r].pc = "delete"
    /\ ~req[r].flag
    /\ ~Locked(i, r)
    /\ bikeOf' = Removed(i)
    /\ current' = current \ {i}
    /\ req' = [req EXCEPT ![r] = Idle]
    /\ UNCHANGED <<lastId, user, overlapped, failed>>

\* The current bike goes: the delete is flushed, and the newest remaining row is
\* loaded; `flag` now says that it is not current yet and has to be written.
DeleteCurrent(r) ==
    LET i == req[r].row
        successor == Newest(Rows \ {i})
    IN
    /\ req[r].pc = "delete"
    /\ req[r].flag
    /\ ~Locked(i, r)
    /\ req' = [req EXCEPT ![r].pc = "promote", ![r].other = successor,
                          ![r].flag = successor # None /\ successor \notin current]
    /\ UNCHANGED <<bikeOf, current, lastId, user, overlapped, failed>>

PromoteConflicts(r) ==
    /\ req[r].flag
    /\ \/ req[r].other \notin Rows
       \/ current \ {req[r].row, req[r].other} # {}

\* Mutant of Promote: nobody asks whether there is a successor.
PromoteUnchecked(r) ==
    LET i == req[r].row IN
    /\ req[r].pc = "promote"
    /\ ~(req[r].flag /\ Locked(req[r].other, r))
    /\ ~PromoteConflicts(r)
    /\ bikeOf' = Removed(i)
    /\ current' = (current \ {i}) \cup {req[r].other}
    /\ req' = [req EXCEPT ![r] = Idle]
    /\ UNCHANGED <<lastId, user, overlapped, failed>>

\* The successor becomes current, in the transaction that deletes the row.
Promote(r) ==
    LET i == req[r].row IN
    /\ req[r].pc = "promote"
    /\ ~(req[r].flag /\ Locked(req[r].other, r))
    /\ ~PromoteConflicts(r)
    /\ bikeOf' = Removed(i)
    /\ current' = (current \ {i}) \cup (IF req[r].flag THEN {req[r].other} ELSE {})
    /\ req' = [req EXCEPT ![r] = Idle]
    /\ UNCHANGED <<lastId, user, overlapped, failed>>

PromoteFails(r) ==
    /\ req[r].pc = "promote"
    /\ ~(req[r].flag /\ Locked(req[r].other, r))
    /\ PromoteConflicts(r)
    /\ Fail(r)

\* Two removals that wait for each other's row: the database ends one of them.
DeadlockDetected(r) ==
    /\ req[r].pc = "promote" /\ req[r].flag
    /\ \E q \in Requests \ {r} :
          /\ req[q].pc = "promote" /\ req[q].flag
          /\ req[q].row = req[r].other /\ req[q].other = req[r].row
    /\ Fail(r)

-----------------------------------------------------------------------------

Step(r) ==
    \/ AddRow(r) \/ Insert(r) \/ InsertFails(r)
    \/ SetSelect(r) \/ Switch(r) \/ SwitchFails(r)
    \/ Delete(r) \/ DeleteCurrent(r) \/ Promote(r) \/ PromoteFails(r)
    \/ DeadlockDetected(r)

Next ==
    \/ \E r \in Requests, b \in Bikes : AddBegin(r, b)
    \/ \E r \in Requests, i \in Ids : SetBegin(r, i) \/ RemoveBegin(r, i)
    \/ \E r \in Requests : Step(r)

Spec == Init /\ [][Next]_vars

-----------------------------------------------------------------------------
(* Properties *)

RequestType ==
    [pc : {"idle", "add", "insert", "set", "switch", "delete", "promote"},
     row : Ids \cup {None}, bike : Bikes \cup {NoBike},
     other : Ids \cup {None}, flag : BOOLEAN]

TypeOK ==
    /\ bikeOf \in [Ids -> Bikes \cup {NoBike}]
    /\ current \subseteq Ids
    /\ lastId \in 0..MaxRows
    /\ user \in BOOLEAN
    /\ req \in [Requests -> RequestType]
    /\ overlapped \in BOOLEAN
    /\ failed \in BOOLEAN

\* The indexes hold, and the mark of a bike goes when its row goes: is_current is
\* never left on nothing (models.py:59-68).
IndexesHold ==
    /\ \A i, j \in current : i = j
    /\ current \subseteq Rows
    /\ \A i, j \in Rows : bikeOf[i] = bikeOf[j] => i = j

\* A garage that is not empty has a current bike, and only one (models.py:56-58).
OneCurrentPerGarage ==
    /\ Rows # {} => current # {}
    /\ \A i, j \in current : i = j

\* Requests served one after the other keep it so, whatever is added, chosen and
\* removed: only an overlap can leave bikes and no current one.
CurrentUntilOverlap == ~overlapped => OneCurrentPerGarage

\* When the current bike leaves the garage the newest remaining one takes its
\* place at once, as long as no two requests have met (service.py:117-132).
NewestPromoted ==
    [][\A i \in current : ~overlapped' /\ i \notin Rows' =>
          /\ Rows' # {} => current' # {}
          /\ \A j \in current', k \in Rows' : k <= j]_vars

\* A request that meets no other is never answered with a server error: its
\* statements do not meet the indexes they were ordered to satisfy
\* (service.py:109-110), nor a row that is gone, nor another's lock.
FailuresOverlap == failed => overlapped

=============================================================================
