---- MODULE Seating ----
(***************************************************************************)
(* The lanes that decide who works where and when, as the code runs them:  *)
(* a request reads through the pool, opens a transaction, takes advisory   *)
(* locks in the one order (venue, shift, person), re-runs its rules, takes *)
(* the shift's row lock, counts, writes and commits. Every action below is *)
(* one step of one request; other requests run between any two of them.    *)
(*                                                                         *)
(*   create   POST /shift-assignment        ShiftAssignmentRepository.create *)
(*   restaff  PUT /shift-assignment/:id     updateIfSeatFree                *)
(*   swap     outlet swap approved by the PR OutletSwapRepository.approve   *)
(*   edit     PUT /shift/:id                updateWithPayTiers              *)
(*   block    the PR blocks a day           PrAvailabilityRepository.block  *)
(*                                                                         *)
(* Abstracted: the venue rules of an edit and the travel-time rule of the  *)
(* seating lanes may refuse at any time (over-approximation); an edit that *)
(* moves a shift to another venue; the wording of refusals; who may call   *)
(* which lane.                                                             *)
(***************************************************************************)
EXTENDS RosterState

CONSTANTS
    Reqs,           \* concurrent requests
    Venues,         \* outlets
    VenueOf,        \* [Shifts -> Venues]  shift.outlet_id
    Lanes,          \* the lanes live in this instance
    Bodies,         \* PUT /shift/:id bodies: what an edit may ask for
    WholeRetimes,   \* does an edit that names the time change it, naming all of it?
    StartTime, StartQuantity, StartMix    \* the shifts as first posted

SeatLanes == {"create", "restaff", "swap"}

\* The lanes of a single statement: coming off a shift, finishing it, deletions.
StatementLanes == {"leave", "finish", "delete"}

Body == [day : Days \cup {None}, slot : Slots \cup {None},
         quantity : Nat \cup {None}, mix : Mixes \cup {None},
         status : {"open", "shut", None}]

ASSUME VenuesAssumption == VenueOf \in [Shifts -> Venues]
ASSUME LanesAssumption ==
    /\ Lanes \subseteq SeatLanes \cup {"edit", "block"} \cup StatementLanes
    /\ WholeRetimes \in BOOLEAN
ASSUME BodiesAssumption == Bodies \subseteq Body /\ None \notin Nat \cup Mixes
ASSUME StartAssumption ==
    /\ StartTime \in [Shifts -> Times]
    /\ StartQuantity \in [Shifts -> Nat]
    /\ StartMix \in [Shifts -> Mixes]

VARIABLES
    pc,     \* [Reqs -> Steps]      where the request is
    job,    \* [Reqs -> Job]        what it was asked, and what it read to decide
    held,   \* [Reqs -> SUBSET Keys] the locks its open transaction holds
    todo    \* [Reqs -> SUBSET Persons] booking locks an edit still has to take

vars == <<posted, time, quantity, mix, status, row, swap, blocked, pc, job, held, todo>>

Steps == {"idle", "checked", "venue", "seats", "judged", "counted"}

\* Advisory locks by class, and the row locks a lane holds to its commit.
VenueKey(v) == <<"shift-post", v>>
SeatKey(s) == <<"shift-seat", s>>
PersonKey(p) == <<"pr-booking", p>>
ShiftRow(s) == <<"shift", s>>
SwapRow(w) == <<"outlet_swap_request", w>>
PersonRow(r) == <<"shift_assignment", r>>

Keys == {VenueKey(v) : v \in Venues} \cup {SeatKey(s) : s \in Shifts}
          \cup {PersonKey(p) : p \in Persons} \cup {ShiftRow(s) : s \in Shifts}
          \cup {SwapRow(w) : w \in SwapIds} \cup {PersonRow(r) : r \in RowIds}

SeatOn(lane, rows, requests, vacated) ==
    [lane : {lane}, row : rows, request : requests, shift : Shifts,
     person : Persons, agency : Agencies, vacating : vacated]

SeatJob == SeatOn("create", {None}, {None}, {None})
             \cup SeatOn("restaff", RowIds, {None}, {None})
             \cup SeatOn("swap", RowIds, SwapIds, Shifts)
EditJob == [lane : {"edit"}, shift : Shifts, body : Body, target : Times,
            timing : BOOLEAN]
BlockJob == [lane : {"block"}, person : Persons, day : Days]
NoJob == [lane |-> "none"]

Available(k) == \A q \in Reqs : k \notin held[q]

Init ==
    /\ posted = Shifts
    /\ time = StartTime
    /\ quantity = StartQuantity
    /\ mix = StartMix
    /\ status = [s \in Shifts |-> "open"]
    /\ row = [r \in RowIds |-> NoRow]
    /\ swap = [w \in SwapIds |-> NoSwap]
    /\ blocked = {}
    /\ pc = [q \in Reqs |-> "idle"]
    /\ job = [q \in Reqs |-> NoJob]
    /\ held = [q \in Reqs |-> {}]
    /\ todo = [q \in Reqs |-> {}]

(***************************************************************************)
(* Moving one request                                                      *)
(***************************************************************************)

\* A request passes its pool check and carries j into its transaction.
Start(q, j) ==
    /\ pc[q] = "idle"
    /\ j.lane \in Lanes
    /\ pc' = [pc EXCEPT ![q] = "checked"]
    /\ job' = [job EXCEPT ![q] = j]
    /\ UNCHANGED <<posted, time, quantity, mix, status, row, swap, blocked, held, todo>>

\* Commit or roll back: the transaction ends and its locks go with it.
Finished(q) ==
    /\ pc' = [pc EXCEPT ![q] = "idle"]
    /\ job' = [job EXCEPT ![q] = NoJob]
    /\ held' = [held EXCEPT ![q] = {}]
    /\ todo' = [todo EXCEPT ![q] = {}]

\* Slip in Refused: a refusal that leaves its session's locks behind.
RefusedLeaky(q) ==
    /\ pc' = [pc EXCEPT ![q] = "idle"]
    /\ job' = [job EXCEPT ![q] = NoJob]
    /\ UNCHANGED <<held, todo, table>>

Refused(q) == Finished(q) /\ UNCHANGED table

\* One more lock, and the statement after it lets the request go on to `next'.
Took(q, ks, next) ==
    /\ held' = [held EXCEPT ![q] = @ \cup ks]
    /\ pc' = [pc EXCEPT ![q] = next]
    /\ UNCHANGED <<posted, time, quantity, mix, status, row, swap, blocked, job>>

(***************************************************************************)
(* Seating a PR: create, re-staff, approve a swap                          *)
(***************************************************************************)

\* seatingRules.judge: a shift that is gone is left to the write's own answer.
Judged(j) ==
    j.shift \in posted =>
        /\ ~Clashes(j.person, j.shift, j.vacating)
        /\ j.lane = "create" => ~AlreadyHere(j.person, j.shift)

SeatRequest(lane, r, w, s, p, a, vacating) ==
    [lane |-> lane, row |-> r, request |-> w, shift |-> s, person |-> p,
     agency |-> a, vacating |-> vacating]

\* Bound: an instance never starts more creates than it has ids left.
IdsLeft ==
    Cardinality({q \in Reqs : job[q].lane = "create"})
        < Cardinality({r \in RowIds : row[r].status = "unborn"})

AskCreate(q) ==
    \E s \in posted, p \in Persons, a \in Agencies :
        LET j == SeatRequest("create", None, None, s, p, a, None) IN
        IdsLeft /\ status[s] = "open" /\ Judged(j) /\ Start(q, j)

AskRestaff(q) ==
    \E r \in RowIds :
        LET j == SeatRequest("restaff", r, None, row[r].shift, row[r].person,
                             row[r].agency, None) IN
        /\ row[r].status = "off"
        /\ status[row[r].shift] = "open"
        /\ Judged(j)
        /\ Start(q, j)

AskApprove(q) ==
    \E w \in SwapIds :
        LET r == swap[w].row
            j == SeatRequest("swap", r, w, swap[w].to, row[r].person,
                             row[r].agency, row[r].shift)
        IN
        Pending(w) /\ Judged(j) /\ Start(q, j)

\* lockShiftSeats
LockSeats(q) ==
    /\ pc[q] = "checked" /\ job[q].lane \in SeatLanes
    /\ Available(SeatKey(job[q].shift))
    /\ Took(q, {SeatKey(job[q].shift)}, "seats")
    /\ UNCHANGED todo

\* Slip in LockBooking: the rules are not asked again under the lock.
LockBookingUnjudged(q) ==
    /\ pc[q] = "seats" /\ job[q].lane \in SeatLanes
    /\ Available(PersonKey(job[q].person))
    /\ Took(q, {PersonKey(job[q].person)}, "judged")
    /\ UNCHANGED todo

\* lockPrBookings, then the rules again through the transaction. The travel-time
\* rule may refuse what the clock allows.
LockBooking(q) ==
    /\ pc[q] = "seats" /\ job[q].lane \in SeatLanes
    /\ Available(PersonKey(job[q].person))
    /\ \/ Judged(job[q]) /\ Took(q, {PersonKey(job[q].person)}, "judged")
            /\ UNCHANGED todo
       \/ Refused(q)

\* Slip in Verdict: an approval that does not re-read its request as pending.
VerdictOnAnyRequest(j) ==
    /\ j.shift \in posted
    /\ HasSeat(j.shift, BucketOf(j.agency, j.person))
    /\ j.lane # "swap" => <<j.person, time[j.shift].day>> \notin blocked

\* The write's own verdict under the shift's row lock. A swap is answered only
\* while it is pending, its destination takes people and both shifts are still on
\* one day; only the other two lanes ask whether the PR blocked the day.
Verdict(j) ==
    /\ j.shift \in posted
    /\ HasSeat(j.shift, BucketOf(j.agency, j.person))
    /\ IF j.lane = "swap"
         THEN /\ Pending(j.request)
              /\ status[j.shift] = "open"
              /\ time[row[j.row].shift].day = time[j.shift].day
              /\ \A r \in StaffingOn(j.shift) : r = j.row \/ row[r].person # j.person
         ELSE <<j.person, time[j.shift].day>> \notin blocked

RowLocks(j) ==
    {ShiftRow(j.shift)}
      \cup (IF j.lane = "swap" THEN {SwapRow(j.request), PersonRow(j.row)} ELSE {})

\* Slip in Count: the seats are counted without FOR UPDATE on the shift.
CountUnlocked(q) ==
    /\ pc[q] = "judged" /\ job[q].lane \in SeatLanes
    /\ \A k \in RowLocks(job[q]) : Available(k)
    /\ IF Verdict(job[q])
         THEN Took(q, {}, "counted") /\ UNCHANGED todo
         ELSE Refused(q)

Count(q) ==
    /\ pc[q] = "judged" /\ job[q].lane \in SeatLanes
    /\ \A k \in RowLocks(job[q]) : Available(k)
    /\ IF Verdict(job[q])
         THEN Took(q, RowLocks(job[q]), "counted") /\ UNCHANGED todo
         ELSE Refused(q)

\* INSERT; the unique index (shift_id, pr_id) rolls a second row back.
WriteCreate(q) ==
    LET j == job[q] IN
    /\ pc[q] = "counted" /\ j.lane = "create"
    /\ IF HasRow(j.person, j.shift)
         THEN UNCHANGED row
         ELSE \E r \in RowIds :
                /\ row[r].status = "unborn"
                /\ row' = [row EXCEPT ![r] = [status |-> "working", shift |-> j.shift,
                                              person |-> j.person, agency |-> j.agency]]
    /\ Finished(q)
    /\ UNCHANGED <<posted, time, quantity, mix, status, swap, blocked>>

\* UPDATE ... WHERE id: whatever shift the row is on by now. A check-out stamp
\* survives the patch, so a finished row stays finished.
WriteRestaff(q) ==
    LET r == job[q].row IN
    /\ pc[q] = "counted" /\ job[q].lane = "restaff"
    /\ row' = IF row[r].status = "off"
                THEN [row EXCEPT ![r].status = "working"] ELSE row
    /\ Finished(q)
    /\ UNCHANGED <<posted, time, quantity, mix, status, swap, blocked>>

WriteSwap(q) ==
    LET j == job[q] IN
    /\ pc[q] = "counted" /\ j.lane = "swap"
    /\ IF HasRow(j.person, j.shift)
         THEN UNCHANGED <<row, swap>>
         ELSE /\ row' = [row EXCEPT ![j.row].shift = j.shift]
              /\ swap' = [swap EXCEPT ![j.request] = ClosedSwap]
    /\ Finished(q)
    /\ UNCHANGED <<posted, time, quantity, mix, status, blocked>>

(***************************************************************************)
(* Editing a shift                                                         *)
(***************************************************************************)

Or(new, old) == IF new = None THEN old ELSE new

\* nextDate and nextSlot: what the body makes of time t.
Retimed(t, b) == [day |-> Or(b.day, t.day), slot |-> Or(b.slot, t.slot)]

\* A body that leaves the time alone, or names both halves of a new one.
Whole(b, timing) ==
    \/ b.day = None /\ b.slot = None
    \/ b.day # None /\ b.slot # None /\ timing

\* The body is judged against the shift as it was READ, before any lock.
AskEdit(q) ==
    \E s \in posted, b \in Bodies :
        LET target == Retimed(time[s], b)
            timing == target # time[s]
        IN
        /\ WholeRetimes => Whole(b, timing)
        /\ MixFits(Or(b.mix, mix[s]), Or(b.quantity, quantity[s]))
        /\ timing => ~DoubleBooks(s, target)
        /\ Start(q, [lane |-> "edit", shift |-> s, body |-> b,
                     target |-> target, timing |-> timing])

\* lockVenueShiftWrites and the venue's rules, which may refuse. An edit that
\* leaves the time alone takes no further advisory lock.
EditVenue(q) ==
    /\ pc[q] = "checked" /\ job[q].lane = "edit"
    /\ Available(VenueKey(VenueOf[job[q].shift]))
    /\ \/ Refused(q)
       \/ /\ Took(q, {VenueKey(VenueOf[job[q].shift])},
                  IF job[q].timing THEN "venue" ELSE "judged")
          /\ UNCHANGED todo

\* lockShiftSeats, then who is on the shift.
EditSeats(q) ==
    /\ pc[q] = "venue" /\ job[q].lane = "edit"
    /\ Available(SeatKey(job[q].shift))
    /\ Took(q, {SeatKey(job[q].shift)}, "seats")
    /\ todo' = [todo EXCEPT ![q] = LiveOn(job[q].shift)]

\* Slip in EditBooking: the keys are taken in the order the rows came back.
EditBookingUnsorted(q) ==
    \E p \in todo[q] :
        /\ pc[q] = "seats" /\ job[q].lane = "edit"
        /\ Available(PersonKey(p))
        /\ Took(q, {PersonKey(p)}, "seats")
        /\ todo' = [todo EXCEPT ![q] = @ \ {p}]

\* lockPrBookings takes its keys one at a time, sorted.
EditBooking(q) ==
    \E p \in todo[q] :
        /\ pc[q] = "seats" /\ job[q].lane = "edit"
        /\ \A o \in todo[q] : p <= o
        /\ Available(PersonKey(p))
        /\ Took(q, {PersonKey(p)}, "seats")
        /\ todo' = [todo EXCEPT ![q] = @ \ {p}]

EditJudge(q) ==
    /\ pc[q] = "seats" /\ job[q].lane = "edit" /\ todo[q] = {}
    /\ IF DoubleBooks(job[q].shift, job[q].target)
         THEN Refused(q)
         ELSE Took(q, {}, "judged") /\ UNCHANGED todo

\* Slip in EditWrite: a headcount the body leaves out is written as null.
EditWriteNull(q) ==
    LET s == job[q].shift
        b == job[q].body
    IN
    /\ pc[q] = "judged" /\ job[q].lane = "edit"
    /\ Available(ShiftRow(s))
    /\ s \in posted
    /\ time' = [time EXCEPT ![s] = Retimed(@, b)]
    /\ quantity' = [quantity EXCEPT ![s] = b.quantity]
    /\ mix' = [mix EXCEPT ![s] = Or(b.mix, @)]
    /\ status' = [status EXCEPT ![s] = Or(b.status, @)]
    /\ Finished(q)
    /\ UNCHANGED <<posted, row, swap, blocked>>

\* UPDATE shift (waiting for its row), the tier rows replaced with it.
EditWrite(q) ==
    LET s == job[q].shift
        b == job[q].body
    IN
    /\ pc[q] = "judged" /\ job[q].lane = "edit"
    /\ Available(ShiftRow(s))
    /\ IF s \in posted
         THEN /\ time' = [time EXCEPT ![s] = Retimed(@, b)]
              /\ quantity' = [quantity EXCEPT ![s] = Or(b.quantity, @)]
              /\ mix' = [mix EXCEPT ![s] = Or(b.mix, @)]
              /\ status' = [status EXCEPT ![s] = Or(b.status, @)]
         ELSE UNCHANGED <<time, quantity, mix, status>>
    /\ Finished(q)
    /\ UNCHANGED <<posted, row, swap, blocked>>

(***************************************************************************)
(* Blocking a day: two statements, no transaction                          *)
(***************************************************************************)

AskBlock(q) ==
    \E p \in Persons, d \in Days :
        ~RosteredOn(p, d) /\ Start(q, [lane |-> "block", person |-> p, day |-> d])

BlockWrite(q) ==
    /\ pc[q] = "checked" /\ job[q].lane = "block"
    /\ blocked' = blocked \cup {<<job[q].person, job[q].day>>}
    /\ Finished(q)
    /\ UNCHANGED <<posted, time, quantity, mix, status, row, swap>>

(***************************************************************************)
(* Single statements that change the roster                                *)
(***************************************************************************)

requests == <<pc, job, held, todo>>

\* The agency proposes a move; the screens are courtesies that approval repeats.
RaiseSwap(w, r) ==
    /\ "swap" \in Lanes
    /\ swap[w].status = "unborn"
    /\ IsStaffing(r)
    /\ \A o \in SwapIds : ~(Pending(o) /\ swap[o].row = r)
    /\ \E s \in posted \ {row[r].shift} :
          /\ time[s].day = time[row[r].shift].day
          /\ HasSeat(s, RowBucket(r))
          /\ ~Clashes(row[r].person, s, row[r].shift)
          /\ swap' = [swap EXCEPT ![w] = [status |-> "pending", row |-> r, to |-> s]]
    /\ UNCHANGED <<posted, time, quantity, mix, status, row, blocked, requests>>

\* Declined by the PR or retracted by the agency, only while pending.
CloseSwap(w) ==
    /\ Pending(w)
    /\ Available(SwapRow(w))
    /\ swap' = [swap EXCEPT ![w] = ClosedSwap]
    /\ UNCHANGED <<posted, time, quantity, mix, status, row, blocked, requests>>

\* Cancelled, no-show, leave approved: the row leaves the shift's headcount.
\* The UPDATE waits for an approval that holds the row.
StandDown(r) ==
    /\ "leave" \in Lanes
    /\ IsStaffing(r)
    /\ Available(PersonRow(r))
    /\ row' = [row EXCEPT ![r].status = "off"]
    /\ UNCHANGED <<posted, time, quantity, mix, status, swap, blocked, requests>>

\* Check-out, or cut-loss releasing the PR early.
Finish(r) ==
    /\ "finish" \in Lanes
    /\ row[r].status = "working"
    /\ Available(PersonRow(r))
    /\ row' = [row EXCEPT ![r].status = "done"]
    /\ UNCHANGED <<posted, time, quantity, mix, status, swap, blocked, requests>>

Gone == [NoRow EXCEPT !.status = "gone"]

\* Slip in Remove: the foreign key from outlet_swap_request does not cascade.
RemoveRowOnly(r) ==
    /\ "delete" \in Lanes
    /\ Exists(r)
    /\ Available(PersonRow(r))
    /\ row' = [row EXCEPT ![r] = Gone]
    /\ UNCHANGED <<posted, time, quantity, mix, status, swap, blocked, requests>>

\* DELETE /shift-assignment/:id; its swap request cascades.
Remove(r) ==
    /\ "delete" \in Lanes
    /\ Exists(r)
    /\ Available(PersonRow(r))
    /\ row' = [row EXCEPT ![r] = Gone]
    /\ swap' = [w \in SwapIds |-> IF swap[w].row = r THEN ClosedSwap ELSE swap[w]]
    /\ UNCHANGED <<posted, time, quantity, mix, status, blocked, requests>>

\* DELETE /shift/:id cascades to its rows and to the swaps naming either. A
\* cascade that meets an approval half way is taken as waiting for it.
Withdraw(s) ==
    LET onIt == {r \in RowIds : Exists(r) /\ row[r].shift = s}
        named == {w \in SwapIds : Pending(w) /\ (swap[w].to = s \/ swap[w].row \in onIt)}
    IN
    /\ "delete" \in Lanes
    /\ s \in posted
    /\ Available(ShiftRow(s))
    /\ \A r \in onIt : Available(PersonRow(r))
    /\ \A w \in named : Available(SwapRow(w))
    /\ posted' = posted \ {s}
    /\ row' = [r \in RowIds |-> IF r \in onIt THEN Gone ELSE row[r]]
    /\ swap' = [w \in SwapIds |-> IF w \in named THEN ClosedSwap ELSE swap[w]]
    /\ UNCHANGED <<time, quantity, mix, status, blocked, requests>>

Unblock ==
    \E b \in blocked :
        /\ blocked' = blocked \ {b}
        /\ UNCHANGED <<posted, time, quantity, mix, status, row, swap, requests>>

(***************************************************************************)
(* The specification                                                       *)
(***************************************************************************)

Ask(q) ==
    \/ AskCreate(q) \/ AskRestaff(q) \/ AskApprove(q)
    \/ AskEdit(q)   \/ AskBlock(q)

Proceed(q) ==
    \/ LockSeats(q) \/ LockBooking(q) \/ Count(q)
    \/ WriteCreate(q) \/ WriteRestaff(q) \/ WriteSwap(q)
    \/ EditVenue(q) \/ EditSeats(q) \/ EditBooking(q) \/ EditJudge(q) \/ EditWrite(q)
    \/ BlockWrite(q)

Statement ==
    \/ \E w \in SwapIds, r \in RowIds : RaiseSwap(w, r)
    \/ \E w \in SwapIds : CloseSwap(w)
    \/ \E r \in RowIds : StandDown(r) \/ Finish(r) \/ Remove(r)
    \/ \E s \in Shifts : Withdraw(s)
    \/ Unblock

Next == (\E q \in Reqs : Ask(q) \/ Proceed(q)) \/ Statement

Spec == Init /\ [][Next]_vars

\* Postgres grants a lock in the order it was asked for, so a request that keeps
\* finding its lock free is not passed over for ever.
FairSpec == Spec /\ \A q \in Reqs : SF_vars(Proceed(q))

(***************************************************************************)
(* Properties                                                              *)
(***************************************************************************)

\* Every variable has its type (shift.model.ts, shift-assignment.model.ts, and
\* the requests' own locals).
TypeOK ==
    /\ posted \subseteq Shifts
    /\ time \in [Shifts -> Times]
    /\ quantity \in [Shifts -> Nat]
    /\ mix \in [Shifts -> Mixes]
    /\ status \in [Shifts -> {"open", "shut"}]
    /\ row \in [RowIds -> Row]
    /\ swap \in [SwapIds -> SwapRequest]
    /\ blocked \subseteq Persons \X Days
    /\ pc \in [Reqs -> Steps]
    /\ job \in [Reqs -> SeatJob \cup EditJob \cup BlockJob \cup {NoJob}]
    /\ held \in [Reqs -> SUBSET Keys]
    /\ todo \in [Reqs -> SUBSET Persons]

\* "One person in two places" (pr-seating-rules.ts): no PR holds two open
\* bookings whose times overlap, however create, re-staff, swap approval and
\* the re-timing of a shift interleave.
NoDoubleBooking ==
    \A r, o \in RowIds :
        /\ r # o
        /\ row[r].status = "working" /\ row[o].status = "working"
        /\ row[r].person = row[o].person
        => ~Overlap(time[row[r].shift], time[row[o].shift])

\* The locks the next step of q asks for.
Wants(q) ==
    LET j == job[q] IN
    CASE pc[q] = "idle" -> {}
      [] pc[q] = "checked" /\ j.lane \in SeatLanes -> {SeatKey(j.shift)}
      [] pc[q] = "seats" /\ j.lane \in SeatLanes -> {PersonKey(j.person)}
      [] pc[q] = "judged" /\ j.lane \in SeatLanes -> RowLocks(j)
      [] pc[q] = "checked" /\ j.lane = "edit" -> {VenueKey(VenueOf[j.shift])}
      [] pc[q] = "venue" -> {SeatKey(j.shift)}
      [] pc[q] = "seats" /\ j.lane = "edit" ->
            {PersonKey(p) : p \in {p \in todo[q] : \A o \in todo[q] : p <= o}}
      [] pc[q] = "judged" /\ j.lane = "edit" -> {ShiftRow(j.shift)}
      [] OTHER -> {}

\* "No cycle, no deadlock" (shift-write-guard.ts): in every set of requests, one
\* waits for nothing another of them holds.
NoStandoff ==
    \A Q \in (SUBSET Reqs) \ {{}} :
        \E q \in Q : \A o \in Q \ {q} : Wants(q) \cap held[o] = {}

Atomic == INSTANCE Roster

\* Every lane's commit is one atomic decision on the roster as it stands at that
\* instant: the headcount, the tier mix, the PR's other bookings and the unique
\* row all still hold when the write lands (ShiftAssignmentRepository.create,
\* updateIfSeatFree, OutletSwapRepository.approve, updateWithPayTiers).
DecidesAtomically == Atomic!Spec

\* A request that passed its check is answered: no lane waits for ever on the
\* locks of the others.
EveryRequestAnswered == \A q \in Reqs : pc[q] # "idle" ~> pc[q] = "idle"

\* "A day they are rostered on cannot be declared unavailable"
\* (pr-availability.repository.ts): no PR is staffing a shift on a day they
\* have blocked.
BookedDayOpen == \A b \in blocked : ~RosteredOn(b[1], b[2])

\* A re-staffing "seats a person and has to refuse a draft or a sealed shift too"
\* (shift-assignment.controller.ts): no row goes back to work on a shut shift.
PutBackWhileOpen ==
    [][\A r \in RowIds :
          row[r].status = "off" /\ row'[r].status = "working"
            => status[row[r].shift] = "open"]_vars

====
