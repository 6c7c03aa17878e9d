---- MODULE Roster ----
(***************************************************************************)
(* What the seating desk promises: every change of the roster is one       *)
(* atomic decision, taken on the roster as it stands at that instant.      *)
(* `Seating' implements this specification with transactions and locks.    *)
(***************************************************************************)
EXTENDS RosterState

Init ==
    /\ posted = Shifts
    /\ time \in [Shifts -> Times]
    /\ quantity \in [Shifts -> Nat]
    /\ mix \in [Shifts -> Mixes]
    /\ status = [s \in Shifts |-> "open"]
    /\ row = [r \in RowIds |-> NoRow]
    /\ swap = [w \in SwapIds |-> NoSwap]
    /\ blocked = {}

\* A PR is put on a shift by a new row.
Seat(r, s, p, a) ==
    /\ row[r].status = "unborn"
    /\ s \in posted
    /\ ~HasRow(p, s)
    /\ ~Clashes(p, s, None)
    /\ HasSeat(s, BucketOf(a, p))
    /\ row' = [row EXCEPT ![r] = [status |-> "working", shift |-> s,
                                  person |-> p, agency |-> a]]
    /\ UNCHANGED <<posted, time, quantity, mix, status, swap, blocked>>

\* A row that came off its shift goes back on it.
PutBack(r) ==
    /\ row[r].status = "off"
    /\ ~Clashes(row[r].person, row[r].shift, None)
    /\ HasSeat(row[r].shift, RowBucket(r))
    /\ row' = [row EXCEPT ![r].status = "working"]
    /\ UNCHANGED <<posted, time, quantity, mix, status, swap, blocked>>

\* An approved swap moves a row to another shift of the same day.
Move(w) ==
    LET r == swap[w].row
        s == swap[w].to
    IN
    /\ Pending(w)
    /\ s \in posted /\ status[s] = "open"
    /\ IsStaffing(r) => time[s].day = time[row[r].shift].day
    /\ ~HasRow(row[r].person, s)
    /\ ~Clashes(row[r].person, s, row[r].shift)
    /\ HasSeat(s, RowBucket(r))
    /\ row' = [row EXCEPT ![r].shift = s]
    /\ swap' = [swap EXCEPT ![w] = ClosedSwap]
    /\ UNCHANGED <<posted, time, quantity, mix, status, blocked>>

\* A venue re-times a shift, changes how many PRs it asks for, or seals it.
Reshape(s) ==
    /\ s \in posted
    /\ time'[s] \in Times /\ time' = [time EXCEPT ![s] = time'[s]]
    /\ quantity'[s] \in Nat /\ quantity' = [quantity EXCEPT ![s] = quantity'[s]]
    /\ mix'[s] \in Mixes /\ mix' = [mix EXCEPT ![s] = mix'[s]]
    /\ status' = [status EXCEPT ![s] = status'[s]]
    /\ time'[s] # time[s] => ~DoubleBooks(s, time'[s])
    /\ UNCHANGED <<posted, row, swap, blocked>>

\* Coming off a shift, finishing it, or losing the row frees its time.
StandDown(r) ==
    /\ IsStaffing(r)
    /\ row' = [row EXCEPT ![r].status = "off"]
    /\ UNCHANGED <<posted, time, quantity, mix, status, swap, blocked>>

Finish(r) ==
    /\ row[r].status = "working"
    /\ row' = [row EXCEPT ![r].status = "done"]
    /\ UNCHANGED <<posted, time, quantity, mix, status, swap, blocked>>

Drop(r) ==
    /\ Exists(r)
    /\ row' = [row EXCEPT ![r] = [NoRow EXCEPT !.status = "gone"]]
    /\ swap' = [w \in SwapIds |-> IF swap[w].row = r THEN ClosedSwap ELSE swap[w]]
    /\ UNCHANGED <<posted, time, quantity, mix, status, blocked>>

\* Deleting a shift cascades to its rows and to the swaps that name it.
Withdraw(s) ==
    /\ s \in posted
    /\ posted' = posted \ {s}
    /\ row' = [r \in RowIds |->
                  IF Exists(r) /\ row[r].shift = s
                    THEN [NoRow EXCEPT !.status = "gone"] ELSE row[r]]
    /\ swap' = [w \in SwapIds |->
                  IF Pending(w) /\ (swap[w].to = s \/ row[swap[w].row].shift = s)
                    THEN ClosedSwap ELSE swap[w]]
    /\ UNCHANGED <<time, quantity, mix, status, blocked>>

\* Swaps raised and closed without a move; days blocked and reopened.
Ask ==
    /\ swap' \in [SwapIds -> SwapRequest]
    /\ blocked' \in SUBSET (Persons \X Days)
    /\ UNCHANGED <<posted, time, quantity, mix, status, row>>

Next ==
    \/ \E r \in RowIds, s \in Shifts, p \in Persons, a \in Agencies : Seat(r, s, p, a)
    \/ \E r \in RowIds : PutBack(r) \/ StandDown(r) \/ Finish(r) \/ Drop(r)
    \/ \E w \in SwapIds : Move(w)
    \/ \E s \in Shifts : Reshape(s) \/ Withdraw(s)
    \/ Ask

Spec == Init /\ [][Next]_table
====
