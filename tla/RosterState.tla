---- MODULE RosterState ----
(***************************************************************************)
(* The tables a seating decision reads and writes, and the rules it asks   *)
(* of them (apps/backend: shift, shift_pay_tier, shift_assignment,         *)
(* outlet_swap_request, pr_availability).                                  *)
(*                                                                         *)
(* `Roster' states what the desk promises as atomic decisions over this    *)
(* state; `Seating' is the code: several requests in flight, each a        *)
(* transaction of several statements under READ COMMITTED.                 *)
(*                                                                         *)
(* A time is a date and a slot, two columns an edit may send one of.       *)
(* util/slot-window.ts lays both on one continuous timeline, so an         *)
(* overnight slot runs past DayLength into the next day; an untimed        *)
(* ("Late night") slot carries no window.                                  *)
(*                                                                         *)
(* shift_assignment.status is kept up to what the rules tell apart:        *)
(*   working  assigned, confirmed, leave_pending                           *)
(*   done     completed (or any row with a check-out stamp)                *)
(*   off      cancelled, no_show, leave_approved  (NON_STAFFING_STATUSES)  *)
(*   unborn   an id no row has yet;  gone  a deleted row                   *)
(*                                                                         *)
(* shift.status is "open" while the shift takes people                     *)
(* (ASSIGNABLE_SHIFT_STATUSES) and "shut" as a draft or once sealed.       *)
(***************************************************************************)
EXTENDS Integers, FiniteSets, Functions

CONSTANTS
    Shifts,     \* shift ids
    Persons,    \* PR ids, ordered as takeLocks sorts its keys
    Agencies,   \* agency ids
    RowIds,     \* shift_assignment ids the instance may hand out
    SwapIds,    \* outlet_swap_request ids the instance may hand out
    Buckets,    \* demand buckets a tier row can name
    NoBucket,   \* a PR whose grade is no named bucket
    Grade,      \* agency_pr.tier as a bucket, per membership
    Days,       \* the dates a shift can be given, as day numbers
    Slots,      \* the slots a shift can be given
    DayLength,  \* minutes in a day
    None        \* SQL null

ASSUME PersonsAssumption == Persons \subseteq Int
ASSUME TimesAssumption ==
    /\ Days \subseteq Int
    /\ Slots \subseteq [timed : BOOLEAN, from : Int, to : Int]
    /\ DayLength \in Int
ASSUME BucketsAssumption ==
    /\ IsFiniteSet(Buckets) /\ NoBucket \notin Buckets
    /\ Grade \in [Agencies \X Persons -> Buckets \cup {NoBucket}]
ASSUME NoneAssumption ==
    /\ None \notin Shifts \cup RowIds \cup SwapIds
    /\ None \notin Days
    /\ None \notin Slots
ASSUME FiniteAssumption == IsFiniteSet(RowIds)

VARIABLES
    posted,     \* shifts that exist
    time,       \* [Shifts -> Times]              shift.shift_date and shift.slot
    quantity,   \* [Shifts -> Nat]                shift.quantity
    mix,        \* [Shifts -> [Buckets -> Nat]]   shift_pay_tier, summed per bucket
    status,     \* [Shifts -> {"open", "shut"}]   shift.status: does it take anyone?
    row,        \* [RowIds -> Row]                shift_assignment
    swap,       \* [SwapIds -> SwapRequest]       outlet_swap_request
    blocked     \* set of <<person, day>>         pr_availability

Times == [day : Days, slot : Slots]

table == <<posted, time, quantity, mix, status, row, swap, blocked>>

Statuses == {"unborn", "working", "done", "off", "gone"}

Row == [status : Statuses, shift : Shifts \cup {None},
        person : Persons \cup {None}, agency : Agencies \cup {None}]

NoRow == [status |-> "unborn", shift |-> None, person |-> None, agency |-> None]

SwapRequest == [status : {"unborn", "pending", "closed"},
                row : RowIds \cup {None}, to : Shifts \cup {None}]

NoSwap == [status |-> "unborn", row |-> None, to |-> None]

\* A request that is answered, retracted or deleted with its row never reopens;
\* what it named no longer matters.
ClosedSwap == [NoSwap EXCEPT !.status = "closed"]

Mixes == [Buckets -> Nat]

(***************************************************************************)
(* Reading the tables                                                      *)
(***************************************************************************)

\* A row the table holds, whatever its status.
Exists(r) == row[r].status \in {"working", "done", "off"}

Pending(w) == swap[w].status = "pending"

\* status NOT IN (cancelled, no_show, leave_approved).
IsStaffing(r) == row[r].status \in {"working", "done"}

\* shiftsOverlap
From(t) == t.day * DayLength + t.slot.from
To(t) == t.day * DayLength + t.slot.to
Overlap(t, u) == t.slot.timed /\ u.slot.timed /\ From(t) < To(u) /\ From(u) < To(t)

\* countStaffing
StaffingOn(s) == {r \in RowIds : IsStaffing(r) /\ row[r].shift = s}

\* The bucket a staffing row counts against: its own agency's grade for the PR.
BucketOf(a, p) == Grade[<<a, p>>]
RowBucket(r) == BucketOf(row[r].agency, row[r].person)

\* The persons an edit of s has to ask about: liveOn(listByShift(s)).
LiveOn(s) == {row[r].person : r \in StaffingOn(s)}

(***************************************************************************)
(* The rules                                                               *)
(***************************************************************************)

TotalAsked(m) == SumFunction(m)

\* demandExceedsQuantity, negated: the tier rows partition the headcount.
MixFits(m, n) == TotalAsked(m) <= n

\* seatFor: does one more PR of bucket b fit the mix?
SeatFor(s, b) ==
    \/ TotalAsked(mix[s]) = 0
    \/ /\ b \in Buckets
       /\ mix[s][b] > 0
       /\ Cardinality({r \in StaffingOn(s) : RowBucket(r) = b}) < mix[s][b]
    \/ /\ b \in Buckets => mix[s][b] = 0
       /\ Cardinality({r \in StaffingOn(s) :
                          RowBucket(r) \in Buckets => mix[s][RowBucket(r)] = 0})
            < quantity[s] - TotalAsked(mix[s])

\* countStaffing < quantity, then the mix.
HasSeat(s, b) == Cardinality(StaffingOn(s)) < quantity[s] /\ SeatFor(s, b)

\* seatFacts.overlap: one of the person's other live bookings, outside the
\* shift being left behind, meets s on the clock.
Clashes(p, s, vacating) ==
    \E r \in RowIds :
        /\ row[r].status = "working"
        /\ row[r].person = p
        /\ row[r].shift \notin {s, vacating}
        /\ Overlap(time[s], time[row[r].shift])

\* seatFacts.alreadyHere, and the unique index (shift_id, pr_id) itself.
AlreadyHere(p, s) ==
    \E r \in RowIds : IsStaffing(r) /\ row[r].person = p /\ row[r].shift = s
HasRow(p, s) ==
    \E r \in RowIds : Exists(r) /\ row[r].person = p /\ row[r].shift = s

\* shiftEditRules.doubleBooking for shift s at time t. Stricter than seatFacts:
\* a completed booking counts on both sides.
DoubleBooks(s, t) ==
    \E r \in StaffingOn(s), o \in RowIds :
        /\ IsStaffing(o)
        /\ row[o].person = row[r].person
        /\ row[o].shift # s
        /\ Overlap(t, time[row[o].shift])

\* hasLiveAssignmentOn
RosteredOn(p, d) ==
    \E r \in RowIds :
        IsStaffing(r) /\ row[r].person = p /\ time[row[r].shift].day = d

====
