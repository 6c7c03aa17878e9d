---- MODULE SeatingProofs ----
(***************************************************************************)
(* Proofs about `Seating', for every number of shifts, PRs, rows and       *)
(* concurrent requests: its types, that no PR is double-booked, that every *)
(* lane decides atomically as `Roster' says, and that no set of requests   *)
(* waits on itself.                                                        *)
(*                                                                         *)
(* The argument is rely/guarantee. A request that has judged relies on the *)
(* others to spare what it judged; `Spares' says so, `SparedClear' shows   *)
(* that a judgement so spared still stands, and every step that writes a   *)
(* table spares every other request because it holds, or cannot hold, the  *)
(* locks that name what it changes.                                        *)
(***************************************************************************)
EXTENDS SeatingInv, SumLemmas

(***************************************************************************)
(* Types                                                                   *)
(***************************************************************************)

\* A pending swap names a row the table holds, to a shift.
SwapsFilled ==
    \A w \in SwapIds :
        Pending(w) => swap[w].row \in RowIds /\ Exists(swap[w].row)
                      /\ swap[w].to \in Shifts

\* A type is kept only with what the requests copy out of the tables: a row
\* somebody is on names its shift, its PR and its agency.
TypeInv == TypeOK /\ RowsFilled /\ SwapsFilled

\* The tables as first posted, with no request under way, are well typed.
LEMMA InitTypes == Init => TypeInv
  BY StartAssumption, NoneAssumption
  DEF Init, TypeInv, TypeOK, RowsFilled, SwapsFilled, Exists, Pending, NoRow, NoSwap,
      Row, SwapRequest, Statuses, Steps, NoJob

\* A step that starts, moves on or answers a request without writing the tables
\* keeps the types when the job it carries has its own.
LEMMA StartTypes ==
  ASSUME NEW q \in Reqs, NEW j \in SeatJob \cup EditJob \cup BlockJob,
         TypeInv, Start(q, j)
  PROVE  TypeInv'
  BY DEF TypeInv, TypeOK, Start, Steps, RowsFilled, SwapsFilled, Exists, Pending

\* Taking a lock keeps the types.
LEMMA TookTypes ==
  ASSUME NEW q \in Reqs, NEW ks \in SUBSET Keys, NEW next \in Steps,
         todo' \in [Reqs -> SUBSET Persons], TypeInv, Took(q, ks, next)
  PROVE  TypeInv'
  BY DEF TypeInv, TypeOK, Took, RowsFilled, SwapsFilled, Exists, Pending

\* Ending a transaction leaves the request's own variables well typed.
LEMMA FinishedTypes ==
  ASSUME NEW q \in Reqs, TypeInv, Finished(q)
  PROVE  /\ pc' \in [Reqs -> Steps]
         /\ job' \in [Reqs -> SeatJob \cup EditJob \cup BlockJob \cup {NoJob}]
         /\ held' \in [Reqs -> SUBSET Keys]
         /\ todo' \in [Reqs -> SUBSET Persons]
  BY DEF TypeInv, TypeOK, Finished, Steps

\* A refusal keeps the types.
LEMMA RefusedTypes ==
  ASSUME NEW q \in Reqs, TypeInv, Refused(q)
  PROVE  TypeInv'
  BY FinishedTypes
  DEF TypeInv, TypeOK, Refused, table, RowsFilled, SwapsFilled, Exists, Pending

\* Each request's own steps keep the types.
LEMMA AskTypes ==
  ASSUME NEW q \in Reqs, TypeInv, Ask(q)
  PROVE  TypeInv'
<1>1. CASE AskCreate(q)
  <2>1. PICK s \in posted, p \in Persons, a \in Agencies :
            Start(q, SeatRequest("create", None, None, s, p, a, None))
    BY <1>1 DEF AskCreate
  <2>2. SeatRequest("create", None, None, s, p, a, None) \in SeatJob
    BY DEF SeatRequest, SeatJob, SeatOn, TypeInv, TypeOK
  <2> QED BY <2>1, <2>2, StartTypes
<1>2. CASE AskRestaff(q)
  <2> DEFINE j(r) == SeatRequest("restaff", r, None, row[r].shift, row[r].person,
                                 row[r].agency, None)
  <2>1. PICK r \in RowIds : row[r].status = "off" /\ Start(q, j(r))
    BY <1>2 DEF AskRestaff
  <2>2. j(r) \in SeatJob
    BY <2>1 DEF SeatRequest, SeatJob, SeatOn, TypeInv, TypeOK, RowsFilled, Exists
  <2> QED BY <2>1, <2>2, StartTypes
<1>3. CASE AskApprove(q)
  <2> DEFINE r(w) == swap[w].row
             j(w) == SeatRequest("swap", r(w), w, swap[w].to, row[r(w)].person,
                                 row[r(w)].agency, row[r(w)].shift)
  <2>1. PICK w \in SwapIds : Pending(w) /\ Start(q, j(w))
    BY <1>3 DEF AskApprove
  <2>2. r(w) \in RowIds /\ Exists(r(w)) /\ swap[w].to \in Shifts
    BY <2>1 DEF TypeInv, SwapsFilled
  <2>3. j(w) \in SeatJob
    BY <2>2 DEF SeatRequest, SeatJob, SeatOn, TypeInv, RowsFilled
  <2> QED BY <2>1, <2>3, StartTypes
<1>4. CASE AskEdit(q)
  <2> DEFINE j(s, b) == [lane |-> "edit", shift |-> s, body |-> b,
                         target |-> Retimed(time[s], b),
                         timing |-> Retimed(time[s], b) # time[s]]
  <2>1. PICK s \in posted, b \in Bodies : Start(q, j(s, b))
    BY <1>4 DEF AskEdit
  <2>2. s \in Shifts /\ b \in Body /\ time[s] \in Times
    BY BodiesAssumption DEF TypeInv, TypeOK
  <2>3. Retimed(time[s], b) \in Times
    BY <2>2 DEF Retimed, Or, Body, Times
  <2>4. j(s, b) \in EditJob
    BY <2>2, <2>3 DEF EditJob
  <2> QED BY <2>1, <2>4, StartTypes
<1>5. CASE AskBlock(q)
  <2>1. PICK p \in Persons, d \in Days :
            Start(q, [lane |-> "block", person |-> p, day |-> d])
    BY <1>5 DEF AskBlock
  <2>2. [lane |-> "block", person |-> p, day |-> d] \in BlockJob
    BY DEF BlockJob
  <2> QED BY <2>1, <2>2, StartTypes
<1> QED BY <1>1, <1>2, <1>3, <1>4, <1>5 DEF Ask

\* The locking and counting steps of a seating request keep the types.
LEMMA SeatStepTypes ==
  ASSUME NEW q \in Reqs, TypeInv, LockSeats(q) \/ LockBooking(q) \/ Count(q)
  PROVE  TypeInv'
<1>1. job[q] \in SeatJob \cup EditJob \cup BlockJob \cup {NoJob} /\ todo \in [Reqs -> SUBSET Persons]
  BY DEF TypeInv, TypeOK
<1>2. job[q].lane \in SeatLanes => job[q] \in SeatJob
  BY <1>1 DEF SeatLanes, EditJob, BlockJob, NoJob
<1>3. CASE LockSeats(q)
  <2>1. {SeatKey(job[q].shift)} \in SUBSET Keys
    BY <1>2, <1>3 DEF LockSeats, SeatJob, SeatOn, Keys
  <2>2. Took(q, {SeatKey(job[q].shift)}, "seats") /\ todo' = todo
    BY <1>3 DEF LockSeats
  <2> QED BY <1>1, <2>1, <2>2, TookTypes DEF Steps
<1>4. CASE LockBooking(q)
  <2>1. {PersonKey(job[q].person)} \in SUBSET Keys
    BY <1>2, <1>4 DEF LockBooking, SeatJob, SeatOn, Keys
  <2>2. CASE Took(q, {PersonKey(job[q].person)}, "judged") /\ todo' = todo
    BY <1>1, <2>1, <2>2, TookTypes DEF Steps
  <2> QED BY <1>4, <2>2, RefusedTypes DEF LockBooking
<1>5. CASE Count(q)
  <2>1. RowLocks(job[q]) \in SUBSET Keys
    BY <1>2, <1>5 DEF Count, RowLocks, SeatJob, SeatOn, Keys
  <2>2. CASE Took(q, RowLocks(job[q]), "counted") /\ todo' = todo
    BY <1>1, <2>1, <2>2, TookTypes DEF Steps
  <2> QED BY <1>5, <2>2, RefusedTypes DEF Count
<1> QED BY <1>3, <1>4, <1>5

\* Its writes keep the types.
LEMMA SeatWriteTypes ==
  ASSUME NEW q \in Reqs, TypeInv, WriteCreate(q) \/ WriteRestaff(q) \/ WriteSwap(q)
  PROVE  TypeInv'
<1>1. job[q] \in SeatJob \cup EditJob \cup BlockJob \cup {NoJob}
  BY DEF TypeInv, TypeOK
<1>2. job[q].lane \in SeatLanes => job[q] \in SeatJob
  BY <1>1 DEF SeatLanes, EditJob, BlockJob, NoJob
<1>3. Finished(q) /\ UNCHANGED <<posted, time, quantity, mix, status, blocked>>
  BY DEF WriteCreate, WriteRestaff, WriteSwap
<1>4. CASE WriteCreate(q)
  <2>1. job[q].shift \in Shifts /\ job[q].person \in Persons /\ job[q].agency \in Agencies
    BY <1>2, <1>4 DEF WriteCreate, SeatLanes, SeatJob, SeatOn
  <2>2. CASE UNCHANGED row
    <3>1. swap' = swap
      BY <1>4 DEF WriteCreate
    <3> QED BY <1>3, <2>2, <3>1, FinishedTypes
            DEF TypeInv, TypeOK, RowsFilled, SwapsFilled, Exists, Pending
  <2>3. ASSUME NEW r \in RowIds, row[r].status = "unborn",
               row' = [row EXCEPT ![r] = [status |-> "working", shift |-> job[q].shift,
                                          person |-> job[q].person, agency |-> job[q].agency]]
        PROVE  TypeInv'
    <3>1. row' \in [RowIds -> Row]
      BY <2>1, <2>3 DEF TypeInv, TypeOK, Row, Statuses
    <3>2. RowsFilled' /\ \A o \in RowIds : Exists(o) => Exists(o)'
      BY <2>1, <2>3 DEF TypeInv, TypeOK, RowsFilled, Exists
    <3>3. swap' = swap
      BY <1>4 DEF WriteCreate
    <3> QED BY <1>3, <3>1, <3>2, <3>3, FinishedTypes DEF TypeInv, TypeOK, SwapsFilled, Pending
  <2> QED BY <1>4, <2>2, <2>3 DEF WriteCreate
<1>5. CASE WriteRestaff(q)
  <2>1. swap' = swap /\ row' \in [RowIds -> Row] /\ RowsFilled'
        /\ \A r \in RowIds : Exists(r) => Exists(r)'
    BY <1>2, <1>5 DEF WriteRestaff, SeatLanes, SeatJob, SeatOn, TypeInv, TypeOK, Row,
                      Statuses, RowsFilled, Exists
  <2> QED BY <1>3, <2>1, FinishedTypes DEF TypeInv, TypeOK, SwapsFilled, Pending
<1>6. CASE WriteSwap(q)
  <2>1. job[q].shift \in Shifts
    BY <1>2, <1>6 DEF WriteSwap, SeatLanes, SeatJob, SeatOn
  <2>2. row' \in [RowIds -> Row] /\ RowsFilled' /\ \A r \in RowIds : Exists(r) => Exists(r)'
    <3>1. UNCHANGED row \/ row' = [row EXCEPT ![job[q].row].shift = job[q].shift]
      BY <1>6 DEF WriteSwap
    <3>2. row' \in [RowIds -> Row]
      BY <2>1, <3>1 DEF TypeInv, TypeOK, Row
    <3>3. \A r \in RowIds : row'[r].status = row[r].status /\ row'[r].person = row[r].person
                            /\ row'[r].agency = row[r].agency
                            /\ row'[r].shift \in {row[r].shift, job[q].shift}
      BY <3>1 DEF TypeInv, TypeOK, Row
    <3> QED BY <2>1, <3>2, <3>3 DEF TypeInv, RowsFilled, Exists
  <2>3. swap' \in [SwapIds -> SwapRequest]
        /\ \A w \in SwapIds : Pending(w)' => Pending(w) /\ swap'[w] = swap[w]
    BY <1>6 DEF WriteSwap, TypeInv, TypeOK, SwapRequest, ClosedSwap, NoSwap, Pending
  <2> QED BY <1>3, <2>2, <2>3, FinishedTypes DEF TypeInv, TypeOK, SwapsFilled, Pending
<1> QED BY <1>4, <1>5, <1>6

\* The steps of an edit and of a block keep the types.
LEMMA EditTypes ==
  ASSUME NEW q \in Reqs, TypeInv,
         \/ EditVenue(q) \/ EditSeats(q) \/ EditBooking(q) \/ EditJudge(q)
         \/ EditWrite(q) \/ BlockWrite(q)
  PROVE  TypeInv'
<1>1. job[q] \in SeatJob \cup EditJob \cup BlockJob \cup {NoJob} /\ todo \in [Reqs -> SUBSET Persons]
  BY DEF TypeInv, TypeOK
<1>2. job[q].lane = "edit" => job[q] \in EditJob
  BY <1>1 DEF SeatJob, SeatOn, BlockJob, NoJob
<1>3. CASE EditVenue(q)
  <2>1. {VenueKey(VenueOf[job[q].shift])} \in SUBSET Keys
    BY <1>2, <1>3, VenuesAssumption DEF EditVenue, EditJob, Keys
  <2>2. CASE Took(q, {VenueKey(VenueOf[job[q].shift])},
                  IF job[q].timing THEN "venue" ELSE "judged") /\ todo' = todo
    BY <1>1, <2>1, <2>2, TookTypes DEF Steps
  <2> QED BY <1>3, <2>2, RefusedTypes DEF EditVenue
<1>4. CASE EditSeats(q)
  <2>1. LiveOn(job[q].shift) \in SUBSET Persons
    BY DEF LiveOn, StaffingOn, IsStaffing, Exists, TypeInv, RowsFilled
  <2>2. todo' \in [Reqs -> SUBSET Persons]
    BY <1>1, <1>4, <2>1 DEF EditSeats
  <2>3. {SeatKey(job[q].shift)} \in SUBSET Keys
    BY <1>2, <1>4 DEF EditSeats, EditJob, Keys
  <2> QED BY <1>4, <2>2, <2>3, TookTypes DEF EditSeats, Steps
<1>5. CASE EditBooking(q)
  <2>1. PICK p \in todo[q] : Took(q, {PersonKey(p)}, "seats")
                             /\ todo' = [todo EXCEPT ![q] = @ \ {p}]
    BY <1>5 DEF EditBooking
  <2>2. todo' \in [Reqs -> SUBSET Persons]
    BY <1>1, <2>1
  <2>3. {PersonKey(p)} \in SUBSET Keys
    BY <1>1 DEF Keys
  <2> QED BY <2>1, <2>2, <2>3, TookTypes DEF Steps
<1>6. CASE EditJudge(q)
  <2>1. CASE Took(q, {}, "judged") /\ todo' = todo
    BY <1>1, <2>1, TookTypes DEF Steps
  <2> QED BY <1>6, <2>1, RefusedTypes DEF EditJudge
<1>7. CASE EditWrite(q)
  <2> DEFINE s == job[q].shift
             b == job[q].body
  <2>1. s \in Shifts /\ b \in Body
    BY <1>2, <1>7 DEF EditWrite, EditJob
  <2>2. /\ Retimed(time[s], b) \in Times
        /\ Or(b.quantity, quantity[s]) \in Nat
        /\ Or(b.mix, mix[s]) \in Mixes
        /\ Or(b.status, status[s]) \in {"open", "shut"}
    BY <2>1 DEF TypeInv, TypeOK, Retimed, Or, Body, Times
  <2>3. /\ time' \in [Shifts -> Times]
        /\ quantity' \in [Shifts -> Nat]
        /\ mix' \in [Shifts -> Mixes]
        /\ status' \in [Shifts -> {"open", "shut"}]
    BY <1>7, <2>1, <2>2 DEF EditWrite, TypeInv, TypeOK
  <2> QED BY <1>7, <2>3, FinishedTypes
          DEF EditWrite, TypeInv, TypeOK, RowsFilled, SwapsFilled, Exists, Pending
<1>8. CASE BlockWrite(q)
  <2>1. job[q] \in BlockJob
    BY <1>1, <1>8 DEF BlockWrite, SeatJob, SeatOn, EditJob, NoJob
  <2> QED BY <1>8, <2>1, FinishedTypes
          DEF BlockWrite, BlockJob, TypeInv, TypeOK, RowsFilled, SwapsFilled, Exists, Pending
<1> QED BY <1>3, <1>4, <1>5, <1>6, <1>7, <1>8

\* So do the single statements, which leave every request where it is.
LEMMA StatementTypes ==
  ASSUME TypeInv, Statement
  PROVE  TypeInv'
<1>1. ASSUME NEW w \in SwapIds, NEW r \in RowIds, RaiseSwap(w, r)
      PROVE  TypeInv'
  <2>1. PICK s \in posted :
            swap' = [swap EXCEPT ![w] = [status |-> "pending", row |-> r, to |-> s]]
    BY <1>1 DEF RaiseSwap
  <2>2. IsStaffing(r) /\ UNCHANGED <<posted, time, quantity, mix, status, row, blocked, requests>>
    BY <1>1 DEF RaiseSwap
  <2> QED BY <2>1, <2>2 DEF requests, TypeInv, TypeOK, SwapRequest, SwapsFilled, Pending,
                           Exists, IsStaffing, RowsFilled
<1>2. ASSUME NEW w \in SwapIds, CloseSwap(w)
      PROVE  TypeInv'
  BY <1>2 DEF CloseSwap, requests, TypeInv, TypeOK, SwapRequest, SwapsFilled, Pending,
              Exists, RowsFilled, ClosedSwap, NoSwap
<1>3. ASSUME NEW r \in RowIds, StandDown(r) \/ Finish(r)
      PROVE  TypeInv'
  <2>1. PICK to \in {"off", "done"} : row' = [row EXCEPT ![r].status = to] /\ Exists(r)
    BY <1>3 DEF StandDown, Finish, Exists, IsStaffing
  <2>2. row' \in [RowIds -> Row]
    BY <2>1 DEF TypeInv, TypeOK, Row, Statuses
  <2>3. RowsFilled' /\ \A o \in RowIds : Exists(o) => Exists(o)'
    BY <2>1 DEF TypeInv, TypeOK, RowsFilled, Exists
  <2>4. UNCHANGED <<posted, time, quantity, mix, status, swap, blocked, requests>>
    BY <1>3 DEF StandDown, Finish
  <2> QED BY <2>2, <2>3, <2>4 DEF requests, TypeInv, TypeOK, SwapsFilled, Pending
<1>4. ASSUME NEW r \in RowIds, Remove(r)
      PROVE  TypeInv'
  <2>1. swap' \in [SwapIds -> SwapRequest] /\ row' \in [RowIds -> Row]
    BY <1>4 DEF Remove, TypeInv, TypeOK, SwapRequest, ClosedSwap, NoSwap, Row, Statuses,
                Gone, NoRow
  <2>2. RowsFilled' /\ SwapsFilled'
    BY <1>4 DEF Remove, TypeInv, TypeOK, SwapsFilled, Pending, Exists, RowsFilled,
                ClosedSwap, NoSwap, Gone, NoRow
  <2> QED BY <1>4, <2>1, <2>2 DEF Remove, requests, TypeInv, TypeOK
<1>5. ASSUME NEW s \in Shifts, Withdraw(s)
      PROVE  TypeInv'
  <2>1. swap' \in [SwapIds -> SwapRequest] /\ row' \in [RowIds -> Row]
    BY <1>5 DEF Withdraw, TypeInv, TypeOK, SwapRequest, ClosedSwap, NoSwap, Row, Statuses,
                Gone, NoRow
  <2>2. RowsFilled' /\ SwapsFilled'
    BY <1>5 DEF Withdraw, TypeInv, TypeOK, SwapsFilled, Pending, Exists, RowsFilled,
                ClosedSwap, NoSwap, Gone, NoRow
  <2> QED BY <1>5, <2>1, <2>2 DEF Withdraw, requests, TypeInv, TypeOK
<1>6. ASSUME Unblock
      PROVE  TypeInv'
  BY <1>6 DEF Unblock, requests, TypeInv, TypeOK, SwapsFilled, Pending, Exists, RowsFilled
<1> QED BY <1>1, <1>2, <1>3, <1>4, <1>5, <1>6 DEF Statement

\* Every step keeps the types.
LEMMA TypeStep == TypeInv /\ [Next]_vars => TypeInv'
<1> SUFFICES ASSUME TypeInv, [Next]_vars
             PROVE  TypeInv'
  OBVIOUS
<1>1. CASE Statement
  BY <1>1, StatementTypes
<1>2. ASSUME NEW q \in Reqs, Ask(q)
      PROVE  TypeInv'
  BY <1>2, AskTypes
<1>3. ASSUME NEW q \in Reqs, Proceed(q)
      PROVE  TypeInv'
  BY <1>3, SeatStepTypes, SeatWriteTypes, EditTypes DEF Proceed
<1>4. CASE UNCHANGED vars
  BY <1>4 DEF vars, TypeInv, TypeOK, RowsFilled, SwapsFilled, Exists, Pending
<1> QED BY <1>1, <1>2, <1>3, <1>4 DEF Next

\* Every variable keeps its type in every run, whatever the instance: the tables
\* are written only with values the lanes read from well-typed tables.
THEOREM TypeCorrect == Spec => []TypeOK
<1>1. TypeInv => TypeOK
  BY DEF TypeInv
<1> QED BY <1>1, InitTypes, TypeStep, PTL DEF Spec

\* The invariant holds the types with what the typing proof adds to them.
LEMMA IInvTypes == IInv => TypeInv
  BY DEF IInv, TypeInv, SwapsNamed, SwapsFilled

\* Two times overlap whichever is named first.
LEMMA OverlapSymmetric == \A t, u : Overlap(t, u) <=> Overlap(u, t)
  BY DEF Overlap

\* A job is one lane's.
LEMMA JobLanes ==
  ASSUME NEW q \in Reqs, TypeOK
  PROVE  /\ job[q].lane \in SeatLanes <=> job[q] \in SeatJob
         /\ job[q].lane = "edit" <=> job[q] \in EditJob
         /\ job[q].lane = "block" <=> job[q] \in BlockJob
  BY DEF TypeOK, SeatLanes, SeatJob, SeatOn, EditJob, BlockJob, NoJob

(***************************************************************************)
(* What a request sees of the steps of the others                          *)
(***************************************************************************)

Quiet(o) == /\ pc'[o] = pc[o]
            /\ job'[o] = job[o]
            /\ held'[o] = held[o]
            /\ todo'[o] = todo[o]

\* What another step may do to the tables while o is between its locks and its
\* commit: put on a shift, or move, only PRs and shifts o has not locked;
\* re-time only shifts none of whose PRs o has locked; delete no shift whose
\* row o holds; close no swap o is approving.
SparesRows(o) ==
    /\ \A r \in RowIds : IsStaffing(r)' =>
          \/ /\ IsStaffing(r)
             /\ row'[r].shift = row[r].shift /\ row'[r].person = row[r].person
             /\ row'[r].agency = row[r].agency
             /\ row'[r].status = "working" => row[r].status = "working"
          \/ /\ PersonKey(row'[r].person) \notin held[o]
             /\ SeatKey(row'[r].shift) \notin held[o]
    /\ \A s \in Shifts : time'[s] # time[s] =>
          /\ SeatKey(s) \notin held[o]
          /\ \A r \in RowIds : IsStaffing(r)' /\ row'[r].shift = s =>
                PersonKey(row'[r].person) \notin held[o]
    /\ \A s \in Shifts : ShiftRow(s) \in held[o] =>
          quantity'[s] = quantity[s] /\ mix'[s] = mix[s] /\ status'[s] = status[s]
    /\ posted' \subseteq posted
    /\ \A s \in posted : s \notin posted' => ShiftRow(s) \notin held[o]

SparesSwaps(o) ==
    /\ \A r \in RowIds : row[r].status = "gone" => row'[r].status = "gone"
    /\ \A r \in RowIds :
          \/ row'[r].status = "gone"
          \/ Exists(r) => /\ Exists(r)'
                          /\ row'[r].person = row[r].person /\ row'[r].agency = row[r].agency
                          /\ "swap" \notin Lanes => row'[r].shift = row[r].shift
    /\ \A w \in SwapIds : swap[w].status # "unborn" =>
          /\ swap'[w].status # "unborn"
          /\ Pending(w)' =>
                /\ Pending(w) /\ swap'[w] = swap[w]
                /\ row'[swap[w].row].shift = row[swap[w].row].shift
                /\ row'[swap[w].row].person = row[swap[w].row].person
                /\ row'[swap[w].row].agency = row[swap[w].row].agency
          /\ Pending(w) /\ ~Pending(w)' =>
                ~({SwapRow(w), PersonRow(swap[w].row)} \subseteq held[o])

Spares(o) == SparesRows(o) /\ SparesSwaps(o)

\* A tier row asks for a number of PRs.
LEMMA AskedIsNat ==
  ASSUME NEW m \in Mixes
  PROVE  TotalAsked(m) \in Nat
<1>1. DOMAIN m = Buckets /\ \A b \in Buckets : m[b] \in Nat
  BY DEF Mixes
<1> QED BY <1>1, BucketsAssumption, SumNat DEF TotalAsked, SumFunction

\* No more rows are counted on a shift once some have left it.
LEMMA FewerRows ==
  ASSUME NEW S \in SUBSET RowIds, NEW T \in SUBSET S
  PROVE  /\ Cardinality(T) \in Nat /\ Cardinality(S) \in Nat
         /\ Cardinality(T) <= Cardinality(S)
  BY FiniteAssumption, FS_Subset, FS_CardinalityType

\* A shift that had a seat for a bucket has it as long as it asks for the same PRs
\* and nobody joins it.
LEMMA SeatKept ==
  ASSUME NEW s \in Shifts, NEW b, quantity[s] \in Nat, mix[s] \in Mixes,
         quantity'[s] = quantity[s], mix'[s] = mix[s],
         \A r \in StaffingOn(s)' : r \in StaffingOn(s) /\ RowBucket(r)' = RowBucket(r),
         HasSeat(s, b)
  PROVE  HasSeat(s, b)'
<1> DEFINE In(r) == RowBucket(r) = b
           Other(r) == RowBucket(r) \in Buckets => mix[s][RowBucket(r)] = 0
<1>1. StaffingOn(s) \in SUBSET RowIds /\ StaffingOn(s)' \in SUBSET StaffingOn(s)
  BY DEF StaffingOn
<1>2. TotalAsked(mix[s]) \in Nat /\ TotalAsked(mix[s])' = TotalAsked(mix[s])
  BY AskedIsNat DEF TotalAsked
<1>3. Cardinality(StaffingOn(s)') <= Cardinality(StaffingOn(s))
      /\ Cardinality(StaffingOn(s)') \in Nat /\ Cardinality(StaffingOn(s)) \in Nat
  BY <1>1, FewerRows
<1>4. Cardinality({r \in StaffingOn(s) : In(r)}') <= Cardinality({r \in StaffingOn(s) : In(r)})
      /\ Cardinality({r \in StaffingOn(s) : In(r)}') \in Nat
      /\ Cardinality({r \in StaffingOn(s) : In(r)}) \in Nat
  <2>1. {r \in StaffingOn(s) : In(r)}' \in SUBSET {r \in StaffingOn(s) : In(r)}
    BY <1>1
  <2>2. {r \in StaffingOn(s) : In(r)} \in SUBSET RowIds
    BY <1>1
  <2> QED BY <2>1, <2>2, FewerRows
<1>5. Cardinality({r \in StaffingOn(s) : Other(r)}') <= Cardinality({r \in StaffingOn(s) : Other(r)})
      /\ Cardinality({r \in StaffingOn(s) : Other(r)}') \in Nat
      /\ Cardinality({r \in StaffingOn(s) : Other(r)}) \in Nat
  <2>1. {r \in StaffingOn(s) : Other(r)}' \in SUBSET {r \in StaffingOn(s) : Other(r)}
    BY <1>1
  <2>2. {r \in StaffingOn(s) : Other(r)} \in SUBSET RowIds
    BY <1>1
  <2> QED BY <2>1, <2>2, FewerRows
<1>6. SeatFor(s, b)'
  <2>1. CASE TotalAsked(mix[s]) = 0
    BY <1>2, <2>1 DEF SeatFor
  <2>2. CASE /\ b \in Buckets
             /\ mix[s][b] > 0
             /\ Cardinality({r \in StaffingOn(s) : In(r)}) < mix[s][b]
    <3>1. mix[s][b] \in Nat
      BY <2>2 DEF Mixes
    <3>2. Cardinality({r \in StaffingOn(s) : In(r)}') < mix'[s][b]
      BY <1>4, <2>2, <3>1
    <3> QED BY <2>2, <3>2 DEF SeatFor
  <2>3. CASE /\ b \in Buckets => mix[s][b] = 0
             /\ Cardinality({r \in StaffingOn(s) : Other(r)}) < quantity[s] - TotalAsked(mix[s])
    <3>1. Cardinality({r \in StaffingOn(s) : Other(r)}') < quantity'[s] - TotalAsked(mix[s])'
      BY <1>2, <1>5, <2>3
    <3> QED BY <2>3, <3>1 DEF SeatFor
  <2> QED BY <2>1, <2>2, <2>3 DEF HasSeat, SeatFor
<1> QED BY <1>3, <1>6 DEF HasSeat

\* The judgement of a spared request stands, and so does its verdict.
LEMMA SparedClear ==
  ASSUME IInv, TypeInv', NEW o \in Reqs, Quiet(o), Spares(o)
  PROVE  Cleared(o)'
<1> DEFINE j == job[o]
<1>0. /\ TypeOK /\ TypeInv /\ job'[o] = j /\ Stage(o) /\ Cleared(o) /\ Current(o)
      /\ SparesRows(o) /\ SparesSwaps(o)
  BY IInvTypes DEF IInv, Quiet, Spares
<1>1. ASSUME j \in SeatJob, pc[o] \in {"judged", "counted"}, j.shift \in posted',
             Clashes(j.person, j.shift, j.vacating)'
      PROVE  FALSE
  <2>1. SeatKey(j.shift) \in held[o] /\ PersonKey(j.person) \in held[o] /\ j.shift \in Shifts
    BY <1>0, <1>1, JobLanes DEF Stage, SeatStage, EditStage, EditJob, BlockJob, SeatJob, SeatOn, NoJob
  <2>2. PICK r \in RowIds :
            /\ row'[r].status = "working" /\ row'[r].person = j.person
            /\ row'[r].shift \notin {j.shift, j.vacating}
            /\ Overlap(time'[j.shift], time'[row'[r].shift])
    BY <1>0, <1>1 DEF Clashes, Overlap, From, To
  <2>3. row[r].status = "working" /\ row[r].person = j.person /\ row[r].shift = row'[r].shift
    BY <1>0, <2>1, <2>2 DEF SparesRows, IsStaffing
  <2>4. row[r].shift \in Shifts
    BY <1>0, <2>3 DEF TypeInv, RowsFilled, Exists
  <2>5. time'[j.shift] = time[j.shift] /\ time'[row[r].shift] = time[row[r].shift]
    BY <1>0, <2>1, <2>2, <2>3, <2>4 DEF SparesRows, IsStaffing
  <2>6. Clashes(j.person, j.shift, j.vacating)
    BY <2>2, <2>3, <2>5 DEF Clashes
  <2>7. j.shift \in posted
    BY <1>0, <1>1 DEF SparesRows
  <2> QED BY <1>0, <1>1, <2>6, <2>7 DEF Cleared
<1>2. ASSUME j \in SeatJob, pc[o] = "counted"
      PROVE  /\ j.shift \in posted' /\ HasSeat(j.shift, BucketOf(j.agency, j.person))'
             /\ j.lane = "swap" =>
                   /\ status'[j.shift] = "open"
                   /\ IsStaffing(j.row)' => time'[row'[j.row].shift].day = time'[j.shift].day
  <2>1. /\ SeatKey(j.shift) \in held[o] /\ PersonKey(j.person) \in held[o] /\ RowLocks(j) \subseteq held[o]
        /\ j.shift \in Shifts /\ ShiftRow(j.shift) \in held[o]
    BY <1>0, <1>2, JobLanes
    DEF Stage, SeatStage, EditStage, EditJob, BlockJob, SeatJob, SeatOn, NoJob, RowLocks
  <2>2. /\ j.shift \in posted /\ HasSeat(j.shift, BucketOf(j.agency, j.person))
        /\ j.lane = "swap" =>
              /\ status[j.shift] = "open"
              /\ IsStaffing(j.row) => time[row[j.row].shift].day = time[j.shift].day
    BY <1>0, <1>2 DEF Cleared
  <2>3. j.shift \in posted'
    BY <1>0, <2>1, <2>2 DEF SparesRows
  <2>4. /\ quantity'[j.shift] = quantity[j.shift] /\ mix'[j.shift] = mix[j.shift]
        /\ status'[j.shift] = status[j.shift] /\ time'[j.shift] = time[j.shift]
        /\ quantity[j.shift] \in Nat /\ mix[j.shift] \in Mixes
    BY <1>0, <2>1 DEF SparesRows, TypeOK
  <2>5. \A r \in StaffingOn(j.shift)' : r \in StaffingOn(j.shift) /\ RowBucket(r)' = RowBucket(r)
    BY <1>0, <2>1 DEF SparesRows, StaffingOn, RowBucket, BucketOf
  <2>6. HasSeat(j.shift, BucketOf(j.agency, j.person))'
    <3>0. PICK s \in Shifts : s = j.shift
      BY <2>1
    <3>1. PICK b : s = j.shift /\ b = BucketOf(j.agency, j.person)
      BY <3>0
    <3>2. s = j.shift' /\ b = BucketOf(j.agency, j.person)'
      BY <1>0, <3>1 DEF BucketOf
    <3>3. HasSeat(s, b) /\ StaffingOn(s)' = StaffingOn(j.shift)'
      BY <2>2, <3>1, <3>2
    <3>4. \A r \in StaffingOn(s)' : r \in StaffingOn(s) /\ RowBucket(r)' = RowBucket(r)
      BY <2>5, <3>1, <3>3
    <3>5. HasSeat(s, b)'
      BY <2>4, <3>1, <3>3, <3>4, SeatKept
    <3> QED BY <3>2, <3>5
  <2>7. ASSUME j.lane = "swap", IsStaffing(j.row)'
        PROVE  time'[row'[j.row].shift].day = time'[j.shift].day
    <3>1. /\ Pending(j.request) /\ swap[j.request].row = j.row /\ Unmoved(j)
          /\ j.request \in SwapIds /\ j.row \in RowIds
      BY <1>0, <1>2, <2>7 DEF Current, SeatJob, SeatOn
    <3>2. Exists(j.row) /\ row[j.row].person = j.person
      BY <1>0, <3>1 DEF TypeInv, SwapsFilled, Unmoved
    <3>3. row'[j.row].person = j.person
      BY <1>0, <2>7, <3>1, <3>2 DEF SparesSwaps, IsStaffing
    <3>4. IsStaffing(j.row) /\ row'[j.row].shift = row[j.row].shift
      BY <1>0, <2>1, <2>7, <3>1, <3>3 DEF SparesRows
    <3>5. row[j.row].shift \in Shifts
      BY <1>0, <3>1, <3>2 DEF TypeInv, RowsFilled
    <3>6. time'[row[j.row].shift] = time[row[j.row].shift]
      BY <1>0, <2>1, <2>7, <3>1, <3>3, <3>4, <3>5 DEF SparesRows
    <3> QED BY <2>2, <2>4, <2>7, <3>4, <3>6
  <2> QED BY <2>2, <2>3, <2>4, <2>6, <2>7
<1>3. ASSUME j \in EditJob, j.timing, pc[o] \in {"seats", "judged"}
      PROVE  LiveOn(j.shift)' \subseteq LiveOn(j.shift)
  <2>1. SeatKey(j.shift) \in held[o]
    BY <1>0, <1>3 DEF Stage, EditStage, EditJob, BlockJob, SeatJob, SeatOn, NoJob
  <2> QED BY <1>0, <2>1 DEF LiveOn, StaffingOn, SparesRows
<1>4. ASSUME j \in EditJob, j.timing, pc[o] = "judged", DoubleBooks(j.shift, j.target)'
      PROVE  FALSE
  <2>1. SeatKey(j.shift) \in held[o] /\ \A p \in LiveOn(j.shift) : PersonKey(p) \in held[o]
    BY <1>0, <1>4 DEF Cleared, Stage, EditStage, EditJob, BlockJob, SeatJob, SeatOn, NoJob
  <2>2. PICK r \in RowIds, x \in RowIds :
            /\ IsStaffing(r)' /\ row'[r].shift = j.shift
            /\ IsStaffing(x)' /\ row'[x].person = row'[r].person
            /\ row'[x].shift # j.shift /\ Overlap(j.target, time'[row'[x].shift])
    BY <1>0, <1>4 DEF DoubleBooks, StaffingOn, Overlap, From, To
  <2>3. IsStaffing(r) /\ row[r].shift = j.shift /\ row[r].person = row'[r].person
    BY <1>0, <2>1, <2>2 DEF SparesRows
  <2>4. PersonKey(row[r].person) \in held[o]
    BY <2>1, <2>3 DEF LiveOn, StaffingOn
  <2>5. IsStaffing(x) /\ row[x].shift = row'[x].shift /\ row[x].person = row[r].person
    BY <1>0, <2>2, <2>3, <2>4 DEF SparesRows
  <2>6. row[x].shift \in Shifts
    BY <1>0, <2>5 DEF TypeInv, RowsFilled, Exists, IsStaffing
  <2>7. time'[row[x].shift] = time[row[x].shift]
    BY <1>0, <2>2, <2>3, <2>4, <2>5, <2>6 DEF SparesRows
  <2>8. DoubleBooks(j.shift, j.target)
    BY <2>2, <2>3, <2>5, <2>7 DEF DoubleBooks, StaffingOn
  <2> QED BY <1>0, <1>4, <2>8 DEF Cleared
<1> QED BY <1>0, <1>1, <1>2, <1>3, <1>4 DEF Cleared, Quiet

\* What a spared request read of its own row is still so.
LEMMA SparedCurrent ==
  ASSUME Guarded, IInv, NEW o \in Reqs, Quiet(o), SparesSwaps(o)
  PROVE  Current(o)'
<1> DEFINE j == job[o]
<1>0. TypeOK /\ job'[o] = j /\ pc'[o] = pc[o] /\ Stage(o) /\ Current(o)
  BY DEF IInv, Quiet
<1>1. ASSUME j.lane = "restaff"
      PROVE  row'[j.row].status = "gone" \/ (Exists(j.row)' /\ Unmoved(j)')
  <2>1. "swap" \notin Lanes /\ j.row \in RowIds
    BY <1>0, <1>1, JobLanes DEF Guarded, Stage, SeatLanes, SeatJob, SeatOn, NoJob
  <2> QED BY <1>0, <1>1, <2>1 DEF Current, SparesSwaps, Unmoved, Exists
<1>2. ASSUME j.lane = "swap"
      PROVE  /\ swap'[j.request].status # "unborn"
             /\ Pending(j.request)' =>
                  swap'[j.request].row = j.row /\ swap'[j.request].to = j.shift /\ Unmoved(j)'
             /\ pc[o] = "counted" => Pending(j.request)'
  <2>1. j.request \in SwapIds /\ j.row \in RowIds /\ (pc[o] = "counted" => RowLocks(j) \subseteq held[o])
    BY <1>0, <1>2, JobLanes DEF Stage, SeatStage, SeatLanes, SeatJob, SeatOn, NoJob, EditJob, BlockJob
  <2>2. swap[j.request].status # "unborn" /\ (pc[o] = "counted" => Pending(j.request))
    BY <1>0, <1>2 DEF Current
  <2> QED BY <1>0, <1>2, <2>1, <2>2 DEF Current, SparesSwaps, Unmoved, RowLocks
<1> QED BY <1>0, <1>1, <1>2 DEF Current

(***************************************************************************)
(* A step of one request                                                   *)
(***************************************************************************)

\* It leaves the other requests where they are...
LEMMA OthersQuiet ==
  ASSUME TypeOK, NEW q \in Reqs, Ask(q) \/ Proceed(q), NEW o \in Reqs \ {q}
  PROVE  Quiet(o)
<1>1. CASE Ask(q)
  BY <1>1 DEF Ask, AskCreate, AskRestaff, AskApprove, AskEdit, AskBlock, Start, TypeOK, Quiet
<1>2. CASE Proceed(q)
  BY <1>2 DEF Proceed, LockSeats, LockBooking, Count, WriteCreate, WriteRestaff, WriteSwap,
              EditVenue, EditSeats, EditBooking, EditJudge, EditWrite, BlockWrite,
              Took, Refused, Finished, TypeOK, Quiet
<1> QED BY <1>1, <1>2

\* ...and takes only locks nobody holds.
LEMMA LocksStep ==
  ASSUME TypeOK, LocksApart, [Next]_vars
  PROVE  LocksApart'
<1>1. ASSUME NEW q \in Reqs, NEW ks, \A k \in ks : Available(k),
             held' = [held EXCEPT ![q] = @ \cup ks]
      PROVE  LocksApart'
  BY <1>1 DEF TypeOK, LocksApart, Available
<1>2. ASSUME NEW q \in Reqs, Finished(q)
      PROVE  LocksApart'
  BY <1>2 DEF TypeOK, LocksApart, Finished
<1>3. ASSUME held' = held
      PROVE  LocksApart'
  BY <1>3 DEF LocksApart
<1>4. ASSUME NEW q \in Reqs, Ask(q)
      PROVE  held' = held
  BY <1>4 DEF Ask, AskCreate, AskRestaff, AskApprove, AskEdit, AskBlock, Start
<1>5. ASSUME NEW q \in Reqs, Proceed(q)
      PROVE  LocksApart'
  <2>0. ASSUME NEW k, Available(k), held' = [held EXCEPT ![q] = @ \cup {k}]
        PROVE  LocksApart'
    BY <1>1, <2>0
  <2>1. CASE LockSeats(q)
    BY <2>0, <2>1 DEF LockSeats, Took
  <2>2. CASE LockBooking(q)
    <3>1. \/ Finished(q)
          \/ /\ Available(PersonKey(job[q].person))
             /\ held' = [held EXCEPT ![q] = @ \cup {PersonKey(job[q].person)}]
      BY <2>2 DEF LockBooking, Took, Refused
    <3> QED BY <1>2, <2>0, <3>1
  <2>3. CASE Count(q)
    BY <1>1, <1>2, <2>3 DEF Count, Took, Refused
  <2>4. CASE EditVenue(q)
    <3>1. \/ Finished(q)
          \/ /\ Available(VenueKey(VenueOf[job[q].shift]))
             /\ held' = [held EXCEPT ![q] = @ \cup {VenueKey(VenueOf[job[q].shift])}]
      BY <2>4 DEF EditVenue, Took, Refused
    <3> QED BY <1>2, <2>0, <3>1
  <2>5. CASE EditSeats(q)
    BY <2>0, <2>5 DEF EditSeats, Took
  <2>6. CASE EditBooking(q)
    <3>1. PICK p \in todo[q] : /\ Available(PersonKey(p))
                               /\ held' = [held EXCEPT ![q] = @ \cup {PersonKey(p)}]
      BY <2>6 DEF EditBooking, Took
    <3> QED BY <2>0, <3>1
  <2>7. CASE EditJudge(q)
    BY <1>1, <1>2, <2>7 DEF EditJudge, Took, Refused
  <2>8. CASE WriteCreate(q) \/ WriteRestaff(q) \/ WriteSwap(q) \/ EditWrite(q) \/ BlockWrite(q)
    BY <1>2, <2>8 DEF WriteCreate, WriteRestaff, WriteSwap, EditWrite, BlockWrite
  <2> QED BY <1>5, <2>1, <2>2, <2>3, <2>4, <2>5, <2>6, <2>7, <2>8 DEF Proceed
<1>6. ASSUME Statement
      PROVE  held' = held
  BY <1>6 DEF Statement, RaiseSwap, CloseSwap, StandDown, Finish, Remove, Withdraw, Unblock,
              requests
<1> QED BY <1>2, <1>3, <1>4, <1>5, <1>6 DEF Next, vars

\* A request's place, its job and its locks stay in step.
LEMMA StageAsk ==
  ASSUME Guarded, IInv, NEW q \in Reqs, Ask(q)
  PROVE  Stage(q)'
<1>0. TypeOK /\ TypeInv /\ TypeInv' /\ TypeOK'
  BY IInvTypes, AskTypes DEF TypeInv
<1>1. PICK j : Start(q, j)
  BY DEF Ask, AskCreate, AskRestaff, AskApprove, AskEdit, AskBlock
<1>2. pc'[q] = "checked" /\ job'[q] = j /\ j.lane \in Lanes
  BY <1>0, <1>1 DEF Start, TypeOK
<1>3. CASE AskEdit(q)
  <2> DEFINE target(s, b) == Retimed(time[s], b)
             timing(s, b) == target(s, b) # time[s]
             e == job'[q]
  <2>1. PICK s \in posted, b \in Bodies :
            /\ Whole(b, timing(s, b))
            /\ e = [lane |-> "edit", shift |-> s, body |-> b,
                    target |-> target(s, b), timing |-> timing(s, b)]
    BY <1>0, <1>3 DEF AskEdit, Start, TypeOK, Guarded
  <2>2. time[s] \in Times /\ b \in Body
    BY <1>0, BodiesAssumption DEF TypeOK
  <2>a. PICK t \in BOOLEAN : t = timing(s, b)
    OBVIOUS
  <2>b. e.timing = t /\ e.body = b /\ e.target = target(s, b)
    <3>1. e = [lane |-> "edit", shift |-> s, body |-> b, target |-> target(s, b), timing |-> t]
      BY <2>1, <2>a, Zenon
    <3> HIDE DEF e, target
    <3> QED BY <3>1
  <2>3. IF e.timing
          THEN e.body.day = e.target.day /\ e.body.slot = e.target.slot
          ELSE e.body.day = None /\ e.body.slot = None
    <3>1. CASE b.day = None /\ b.slot = None
      <4>1. target(s, b) = time[s]
        BY <2>2, <3>1 DEF Retimed, Or, Times
      <4>2. e.timing = FALSE /\ e.body = b
        BY <2>a, <2>b, <4>1
      <4> QED BY <3>1, <4>2
    <3>2. CASE b.day # None /\ b.slot # None /\ timing(s, b)
      <4>1. target(s, b).day = b.day /\ target(s, b).slot = b.slot
        BY <3>2 DEF Retimed, Or
      <4>2. e.timing = TRUE /\ e.body = b /\ e.target = target(s, b)
        BY <2>a, <2>b, <3>2
      <4> QED BY <4>1, <4>2
    <3> QED BY <2>1, <3>1, <3>2 DEF Whole
  <2>4. job'[q] \in EditJob /\ job'[q].lane \in Lanes
    BY <1>0, <1>2, <2>1 DEF TypeOK, SeatJob, SeatOn, BlockJob, NoJob
  <2> QED BY <1>2, <2>3, <2>4 DEF Stage, EditStage
<1>4. CASE ~AskEdit(q)
  <2>1. job'[q].lane \in SeatLanes \cup {"block"}
    <3>1. CASE AskCreate(q)
      BY <1>0, <3>1 DEF AskCreate, SeatRequest, Start, TypeOK, SeatLanes
    <3>2. CASE AskRestaff(q)
      BY <1>0, <3>2 DEF AskRestaff, SeatRequest, Start, TypeOK, SeatLanes
    <3>3. CASE AskApprove(q)
      BY <1>0, <3>3 DEF AskApprove, SeatRequest, Start, TypeOK, SeatLanes
    <3>4. CASE AskBlock(q)
      BY <1>0, <3>4 DEF AskBlock, Start, TypeOK
    <3> QED BY <1>4, <3>1, <3>2, <3>3, <3>4 DEF Ask
  <2>2. j \in SeatJob \/ j \in BlockJob
    BY <1>0, <1>2, <2>1 DEF TypeOK, EditJob, NoJob, SeatLanes
  <2> QED BY <1>2, <2>2 DEF Stage, SeatStage
<1> QED BY <1>3, <1>4

\* So do they when a request moves on.
LEMMA StageProceed ==
  ASSUME IInv, NEW q \in Reqs, Proceed(q)
  PROVE  Stage(q)'
<1> DEFINE j == job[q]
<1>0. TypeOK /\ Stage(q)
  BY DEF IInv
<1>1. ASSUME Finished(q)
      PROVE  Stage(q)'
  BY <1>0, <1>1 DEF Finished, Stage, TypeOK
<1>2. ASSUME NEW ks, NEW next, Took(q, ks, next)
      PROVE  /\ pc'[q] = next /\ job'[q] = j
             /\ held'[q] = held[q] \cup ks
  BY <1>0, <1>2 DEF Took, TypeOK
<1>3. ASSUME pc[q] # "idle", j.lane \in SeatLanes
      PROVE  j \in SeatJob /\ SeatStage(q) /\ j.lane \in Lanes
  BY <1>0, <1>3, JobLanes DEF Stage, SeatLanes, EditJob, BlockJob
<1>4. ASSUME pc[q] # "idle", j.lane = "edit"
      PROVE  j \in EditJob /\ EditStage(q) /\ j.lane \in Lanes
  BY <1>0, <1>4, JobLanes DEF Stage, SeatJob, SeatOn, BlockJob
<1>5. CASE LockSeats(q)
  BY <1>2, <1>3, <1>5 DEF LockSeats, Stage, SeatStage
<1>6. CASE LockBooking(q)
  <2>1. CASE Took(q, {PersonKey(j.person)}, "judged")
    BY <1>2, <1>3, <1>6, <2>1 DEF LockBooking, Stage, SeatStage
  <2> QED BY <1>1, <1>6, <2>1 DEF LockBooking, Refused
<1>7. CASE Count(q)
  <2>1. CASE Took(q, RowLocks(j), "counted")
    BY <1>2, <1>3, <1>7, <2>1 DEF Count, Stage, SeatStage
  <2> QED BY <1>1, <1>7, <2>1 DEF Count, Refused
<1>8. CASE EditVenue(q)
  <2> DEFINE next == IF j.timing THEN "venue" ELSE "judged"
  <2>1. CASE Took(q, {VenueKey(VenueOf[j.shift])}, next)
    <3>1. j \in EditJob /\ EditStage(q) /\ j.lane \in Lanes
      BY <1>4, <1>8 DEF EditVenue
    <3>2. pc'[q] = next /\ job'[q] = j
      BY <1>2, <2>1
    <3> QED BY <3>1, <3>2 DEF Stage, EditStage, EditJob
  <2> QED BY <1>1, <1>8, <2>1 DEF EditVenue, Refused
<1>9. CASE EditSeats(q)
  BY <1>2, <1>4, <1>9 DEF EditSeats, Stage, EditStage
<1>10. CASE EditBooking(q)
  <2>1. PICK p \in todo[q] : Took(q, {PersonKey(p)}, "seats")
    BY <1>10 DEF EditBooking
  <2> QED BY <1>2, <1>4, <1>10, <2>1 DEF EditBooking, Stage, EditStage
<1>11. CASE EditJudge(q)
  <2>1. CASE Took(q, {}, "judged")
    BY <1>2, <1>4, <1>11, <2>1 DEF EditJudge, Stage, EditStage
  <2> QED BY <1>1, <1>11, <2>1 DEF EditJudge, Refused
<1>12. CASE WriteCreate(q) \/ WriteRestaff(q) \/ WriteSwap(q) \/ EditWrite(q) \/ BlockWrite(q)
  BY <1>1, <1>12 DEF WriteCreate, WriteRestaff, WriteSwap, EditWrite, BlockWrite
<1> QED BY <1>5, <1>6, <1>7, <1>8, <1>9, <1>10, <1>11, <1>12 DEF Proceed

(***************************************************************************)
(* The steps that write a table                                            *)
(***************************************************************************)

TablesGood == RowsUnique /\ SwapsNamed /\ NoDoubleBooking

\* Nothing written, nothing disturbed.
LEMMA Still ==
  ASSUME TablesGood, UNCHANGED table
  PROVE  TablesGood' /\ \A o \in Reqs : Spares(o)
<1>1. TablesGood'
  BY DEF table, TablesGood, RowsUnique, SwapsNamed, NoDoubleBooking, Exists, Pending,
         Overlap, From, To
<1>2. ASSUME NEW o \in Reqs
      PROVE  Spares(o)
  BY DEF table, Spares, SparesRows, SparesSwaps, Exists, Pending, IsStaffing
<1> QED BY <1>1, <1>2

\* What a seating request knows when it writes.
LEMMA CountedKnows ==
  ASSUME IInv, NEW q \in Reqs, pc[q] = "counted"
  PROVE  LET j == job[q] IN
         /\ j \in SeatJob
         /\ j.lane \in Lanes
         /\ SeatKey(j.shift) \in held[q] /\ PersonKey(j.person) \in held[q]
         /\ RowLocks(j) \subseteq held[q]
         /\ ~Clashes(j.person, j.shift, j.vacating)
  BY DEF IInv, Stage, SeatStage, EditStage, Cleared

\* No lock of one request is held by another.
LEMMA NotHeld ==
  ASSUME LocksApart, NEW q \in Reqs, NEW o \in Reqs \ {q}, NEW k \in held[q]
  PROVE  k \notin held[o]
  BY DEF LocksApart

\* A new row is its PR's only one there and meets none of their others: the
\* booking lock has been held since the rules were asked.
LEMMA CreateGood ==
  ASSUME IInv, NEW q \in Reqs, WriteCreate(q)
  PROVE  TablesGood' /\ \A o \in Reqs \ {q} : Spares(o)
<1> DEFINE j == job[q]
<1>0. /\ TypeOK /\ TypeInv /\ LocksApart /\ TablesGood
      /\ posted' = posted /\ time' = time /\ swap' = swap
      /\ UNCHANGED <<quantity, mix, status>>
  BY IInvTypes DEF IInv, TablesGood, WriteCreate
<1>1. CASE row' = row
  BY <1>0, <1>1, Still DEF WriteCreate, table
<1>2. CASE row' # row
  <2>1. PICK n \in RowIds :
            /\ row[n].status = "unborn"
            /\ row' = [row EXCEPT ![n] = [status |-> "working", shift |-> j.shift,
                                          person |-> j.person, agency |-> j.agency]]
    BY <1>2 DEF WriteCreate
  <2>2. ~HasRow(j.person, j.shift) /\ pc[q] = "counted" /\ j.lane = "create"
    BY <1>2 DEF WriteCreate
  <2>3. /\ j \in SeatJob /\ ~Clashes(j.person, j.shift, None)
        /\ SeatKey(j.shift) \in held[q] /\ PersonKey(j.person) \in held[q]
    BY <2>2, CountedKnows DEF SeatJob, SeatOn
  <2>4. /\ row'[n].status = "working" /\ row'[n].shift = j.shift
        /\ row'[n].person = j.person
        /\ \A r \in RowIds \ {n} : row'[r] = row[r]
    BY <1>0, <2>1 DEF TypeOK
  <2>5. RowsUnique'
    BY <1>0, <2>2, <2>4 DEF TablesGood, RowsUnique, HasRow, Exists
  <2>6. SwapsNamed'
    BY <1>0, <2>1, <2>4 DEF TablesGood, SwapsNamed, Pending, Exists
  <2>7. ASSUME NEW r \in RowIds \ {n}, row[r].status = "working", row[r].person = j.person
        PROVE  ~Overlap(time[j.shift], time[row[r].shift])
    <3>1. row[r].shift # j.shift
      BY <2>2, <2>7 DEF HasRow, Exists
    <3>2. row[r].shift \in Shifts
      BY <1>0, <2>7 DEF TypeInv, RowsFilled, Exists
    <3> QED BY <2>3, <2>7, <3>1, <3>2, NoneAssumption DEF Clashes
  <2>8. NoDoubleBooking'
    BY <1>0, <2>4, <2>7, OverlapSymmetric DEF TablesGood, NoDoubleBooking, Overlap, From, To
  <2>9. ASSUME NEW o \in Reqs \ {q}
        PROVE  Spares(o)
    <3>1. SparesRows(o)
      BY <1>0, <2>3, <2>4, NotHeld DEF SparesRows, IsStaffing
    <3>2. SparesSwaps(o)
      BY <1>0, <2>1, <2>4 DEF SparesSwaps, Exists, Pending, TypeInv, SwapsFilled
    <3> QED BY <3>1, <3>2 DEF Spares
  <2> QED BY <2>5, <2>6, <2>8, <2>9 DEF TablesGood
<1> QED BY <1>1, <1>2

\* A row put back on its shift meets none of its PR's others; while no swap is
\* approved beside it, the shift is still the one that was judged.
LEMMA RestaffGood ==
  ASSUME Guarded, IInv, NEW q \in Reqs, WriteRestaff(q)
  PROVE  TablesGood' /\ \A o \in Reqs \ {q} : Spares(o)
<1> DEFINE j == job[q]
           n == j.row
<1>0. /\ TypeOK /\ TypeInv /\ LocksApart /\ TablesGood /\ Current(q)
      /\ posted' = posted /\ time' = time /\ swap' = swap
      /\ UNCHANGED <<quantity, mix, status>>
  BY IInvTypes DEF IInv, TablesGood, WriteRestaff
<1>1. CASE row' = row
  BY <1>0, <1>1, Still DEF WriteRestaff, table
<1>2. CASE row' # row
  <2>1. row[n].status = "off" /\ row' = [row EXCEPT ![n].status = "working"]
    BY <1>2 DEF WriteRestaff
  <2>2. pc[q] = "counted" /\ j.lane = "restaff"
    BY DEF WriteRestaff
  <2>3. /\ j \in SeatJob /\ ~Clashes(j.person, j.shift, None) /\ n \in RowIds
        /\ SeatKey(j.shift) \in held[q] /\ PersonKey(j.person) \in held[q]
    BY <2>2, CountedKnows DEF SeatJob, SeatOn
  <2>4. row[n].shift = j.shift /\ row[n].person = j.person
    BY <1>0, <2>1, <2>2 DEF Current, Unmoved
  <2>5. /\ row'[n].status = "working" /\ row'[n].shift = j.shift
        /\ row'[n].person = j.person /\ row'[n].agency = row[n].agency
        /\ \A r \in RowIds \ {n} : row'[r] = row[r]
    BY <1>0, <2>1, <2>3, <2>4 DEF TypeOK, Row
  <2>6. RowsUnique'
    BY <1>0, <2>1, <2>4, <2>5 DEF TablesGood, RowsUnique, Exists
  <2>7. SwapsNamed'
    BY <1>0, <2>5 DEF TablesGood, SwapsNamed, Pending, Exists
  <2>8. ASSUME NEW r \in RowIds \ {n}, row[r].status = "working", row[r].person = j.person
        PROVE  ~Overlap(time[j.shift], time[row[r].shift])
    <3>1. row[r].shift # j.shift
      BY <1>0, <2>1, <2>3, <2>4, <2>8 DEF TablesGood, RowsUnique, Exists
    <3>2. row[r].shift \in Shifts
      BY <1>0, <2>8 DEF TypeInv, RowsFilled, Exists
    <3> QED BY <2>3, <2>8, <3>1, <3>2, NoneAssumption DEF Clashes
  <2>9. NoDoubleBooking'
    <3>1. ASSUME NEW r \in RowIds, NEW x \in RowIds, r # x,
                 row'[r].status = "working", row'[x].status = "working",
                 row'[r].person = row'[x].person
          PROVE  ~Overlap(time[row'[r].shift], time[row'[x].shift])
      <4>1. CASE r = n
        BY <2>5, <2>8, <3>1, <4>1
      <4>2. CASE x = n
        BY <2>5, <2>8, <3>1, <4>2, OverlapSymmetric
      <4>3. CASE r # n /\ x # n
        BY <1>0, <2>5, <3>1, <4>3 DEF TablesGood, NoDoubleBooking
      <4> QED BY <4>1, <4>2, <4>3
    <3> QED BY <1>0, <3>1 DEF NoDoubleBooking, Overlap, From, To
  <2>10. ASSUME NEW o \in Reqs \ {q}
         PROVE  Spares(o)
    <3>1. SparesRows(o)
      BY <1>0, <2>3, <2>5, NotHeld DEF SparesRows, IsStaffing
    <3>2. SparesSwaps(o)
      BY <1>0, <2>1, <2>4, <2>5 DEF SparesSwaps, Exists, Pending, TypeInv, SwapsFilled
    <3> QED BY <3>1, <3>2 DEF Spares
  <2> QED BY <2>6, <2>7, <2>9, <2>10 DEF TablesGood
<1> QED BY <1>1, <1>2

\* A row moved by an approved swap meets none of its PR's others at the shift it
\* goes to.
LEMMA SwapGood ==
  ASSUME IInv, NEW q \in Reqs, WriteSwap(q)
  PROVE  TablesGood' /\ \A o \in Reqs \ {q} : Spares(o)
<1> DEFINE j == job[q]
           n == j.row
           w == j.request
<1>0. /\ TypeOK /\ TypeInv /\ LocksApart /\ TablesGood /\ Current(q)
      /\ posted' = posted /\ time' = time /\ UNCHANGED <<quantity, mix, status>>
  BY IInvTypes DEF IInv, TablesGood, WriteSwap
<1>1. CASE row' = row /\ swap' = swap
  BY <1>0, <1>1, Still DEF WriteSwap, table
<1>2. CASE ~(row' = row /\ swap' = swap)
  <2>1. /\ ~HasRow(j.person, j.shift)
        /\ row' = [row EXCEPT ![n].shift = j.shift]
        /\ swap' = [swap EXCEPT ![w] = ClosedSwap]
    BY <1>2 DEF WriteSwap
  <2>2. pc[q] = "counted" /\ j.lane = "swap"
    BY DEF WriteSwap
  <2>3. /\ j \in SeatJob /\ ~Clashes(j.person, j.shift, j.vacating)
        /\ n \in RowIds /\ w \in SwapIds /\ j.lane \in Lanes
        /\ SeatKey(j.shift) \in held[q] /\ PersonKey(j.person) \in held[q]
        /\ SwapRow(w) \in held[q]
    BY <2>2, CountedKnows DEF SeatJob, SeatOn, RowLocks
  <2>4. /\ Pending(w) /\ swap[w].row = n
        /\ row[n].shift = j.vacating /\ row[n].person = j.person
    BY <1>0, <2>2 DEF Current, Unmoved
  <2>5. Exists(n)
    BY <1>0, <2>3, <2>4 DEF TypeInv, SwapsFilled
  <2>6. /\ row'[n].status = row[n].status /\ row'[n].shift = j.shift
        /\ row'[n].person = j.person /\ row'[n].agency = row[n].agency
        /\ \A r \in RowIds \ {n} : row'[r] = row[r]
    BY <1>0, <2>1, <2>3, <2>4 DEF TypeOK, Row
  <2>7. swap'[w].status = "closed" /\ \A x \in SwapIds \ {w} : swap'[x] = swap[x]
    BY <1>0, <2>1, <2>3 DEF TypeOK, ClosedSwap, NoSwap
  <2>8. RowsUnique'
    BY <1>0, <2>1, <2>6 DEF TablesGood, RowsUnique, HasRow, Exists
  <2>9. SwapsNamed'
    BY <1>0, <2>2, <2>3, <2>6, <2>7 DEF TablesGood, SwapsNamed, Pending, Exists
  <2>10. ASSUME NEW r \in RowIds \ {n}, row[r].status = "working", row[r].person = j.person
         PROVE  ~Overlap(time[j.shift], time[row[r].shift])
    <3>1. row[r].shift # j.shift
      BY <2>1, <2>10 DEF HasRow, Exists
    <3>2. row[r].shift # j.vacating
      BY <1>0, <2>3, <2>4, <2>5, <2>10 DEF TablesGood, RowsUnique, Exists
    <3> QED BY <2>3, <2>10, <3>1, <3>2 DEF Clashes
  <2>11. NoDoubleBooking'
    <3>1. ASSUME NEW r \in RowIds, NEW x \in RowIds, r # x,
                 row'[r].status = "working", row'[x].status = "working",
                 row'[r].person = row'[x].person
          PROVE  ~Overlap(time[row'[r].shift], time[row'[x].shift])
      <4>1. CASE r = n
        BY <2>6, <2>10, <3>1, <4>1
      <4>2. CASE x = n
        BY <2>6, <2>10, <3>1, <4>2, OverlapSymmetric
      <4>3. CASE r # n /\ x # n
        BY <1>0, <2>6, <3>1, <4>3 DEF TablesGood, NoDoubleBooking
      <4> QED BY <4>1, <4>2, <4>3
    <3> QED BY <1>0, <3>1 DEF NoDoubleBooking, Overlap, From, To
  <2>12. ASSUME NEW o \in Reqs \ {q}
         PROVE  Spares(o)
    <3>1. SparesRows(o)
      BY <1>0, <2>3, <2>6, NotHeld DEF SparesRows, IsStaffing
    <3>2. SwapRow(w) \notin held[o]
      BY <1>0, <2>3, NotHeld
    <3>3. ASSUME NEW x \in SwapIds, Pending(x), x # w
          PROVE  swap[x].row # n /\ swap[x].row \in RowIds
      BY <1>0, <2>3, <2>4, <3>3 DEF TablesGood, SwapsNamed
    <3>4. \A r \in RowIds :
              /\ row[r].status = "gone" => row'[r].status = "gone"
              /\ \/ row'[r].status = "gone"
                 \/ Exists(r) => /\ Exists(r)'
                                 /\ row'[r].person = row[r].person /\ row'[r].agency = row[r].agency
                                 /\ "swap" \notin Lanes => row'[r].shift = row[r].shift
      BY <2>2, <2>3, <2>4, <2>6 DEF Exists
    <3>5. ASSUME NEW x \in SwapIds, swap[x].status # "unborn"
          PROVE  /\ swap'[x].status # "unborn"
                 /\ Pending(x)' =>
                       /\ Pending(x) /\ swap'[x] = swap[x]
                       /\ row'[swap[x].row].shift = row[swap[x].row].shift
                       /\ row'[swap[x].row].person = row[swap[x].row].person
                       /\ row'[swap[x].row].agency = row[swap[x].row].agency
                 /\ Pending(x) /\ ~Pending(x)' =>
                       ~({SwapRow(x), PersonRow(swap[x].row)} \subseteq held[o])
      <4>1. CASE x = w
        BY <2>7, <3>2, <4>1 DEF Pending
      <4>2. CASE x # w
        BY <2>6, <2>7, <3>3, <3>5, <4>2 DEF Pending
      <4> QED BY <4>1, <4>2
    <3> QED BY <3>1, <3>4, <3>5 DEF Spares, SparesSwaps
  <2> QED BY <2>8, <2>9, <2>11, <2>12 DEF TablesGood
<1> QED BY <1>1, <1>2

\* A re-timed shift was judged at the time it gets, with every PR on it locked.
LEMMA EditGood ==
  ASSUME IInv, NEW q \in Reqs, EditWrite(q)
  PROVE  TablesGood' /\ \A o \in Reqs \ {q} : Spares(o)
<1> DEFINE j == job[q]
           s == j.shift
<1>0. /\ TypeOK /\ TypeInv /\ LocksApart /\ TablesGood /\ Stage(q) /\ Cleared(q)
      /\ posted' = posted /\ row' = row /\ swap' = swap
  BY IInvTypes DEF IInv, TablesGood, EditWrite
<1>1. /\ pc[q] = "judged" /\ j \in EditJob /\ EditStage(q)
      /\ s \in Shifts /\ j.body \in Body /\ j.target \in Times /\ j.timing \in BOOLEAN
  BY <1>0, JobLanes DEF EditWrite, Stage, SeatJob, SeatOn, BlockJob, EditJob
<1>2. RowsUnique' /\ SwapsNamed'
  BY <1>0 DEF TablesGood, RowsUnique, SwapsNamed, Exists, Pending
<1>a. \A o \in Reqs, z \in Shifts : ShiftRow(z) \in held[o] =>
          quantity'[z] = quantity[z] /\ mix'[z] = mix[z] /\ status'[z] = status[z]
  <2>1. \A o \in Reqs : ShiftRow(s) \notin held[o]
    BY DEF EditWrite, Available
  <2>2. \A z \in Shifts \ {s} : quantity'[z] = quantity[z] /\ mix'[z] = mix[z] /\ status'[z] = status[z]
    BY <1>0, <1>1 DEF EditWrite, TypeOK
  <2> QED BY <2>1, <2>2
<1>3. CASE time' = time
  <2>1. NoDoubleBooking'
    BY <1>0, <1>3 DEF TablesGood, NoDoubleBooking, Overlap, From, To
  <2>2. ASSUME NEW o \in Reqs
        PROVE  Spares(o)
    BY <1>0, <1>3, <1>a DEF Spares, SparesRows, SparesSwaps, Exists, Pending, IsStaffing
  <2> QED BY <1>2, <2>1, <2>2 DEF TablesGood
<1>4. CASE time' # time
  <2>1. time' = [time EXCEPT ![s] = Retimed(@, j.body)]
    BY <1>4 DEF EditWrite
  <2>2. j.timing
    <3>1. ASSUME ~j.timing
          PROVE  FALSE
      <4>1. Retimed(time[s], j.body) = time[s]
        BY <1>0, <1>1, <3>1 DEF EditStage, Retimed, Or, TypeOK, Times
      <4> QED BY <1>0, <1>1, <1>4, <2>1, <4>1 DEF TypeOK
    <3> QED BY <3>1
  <2>3. Retimed(time[s], j.body) = j.target
    BY <1>0, <1>1, <2>2, NoneAssumption DEF EditStage, Retimed, Or, Times
  <2>4. time'[s] = j.target /\ \A z \in Shifts \ {s} : time'[z] = time[z]
    BY <1>0, <1>1, <2>1, <2>3 DEF TypeOK
  <2>5. /\ SeatKey(s) \in held[q] /\ ~DoubleBooks(s, j.target)
        /\ \A p \in LiveOn(s) : PersonKey(p) \in held[q]
    BY <1>0, <1>1, <2>2 DEF EditStage, Cleared
  <2>6. ASSUME NEW r \in RowIds, NEW x \in RowIds, r # x,
               row[r].status = "working", row[x].status = "working",
               row[r].person = row[x].person
        PROVE  ~Overlap(time'[row[r].shift], time'[row[x].shift])
    <3>1. row[r].shift \in Shifts /\ row[x].shift \in Shifts /\ row[r].shift # row[x].shift
      BY <1>0, <2>6 DEF TypeInv, RowsFilled, Exists, TablesGood, RowsUnique
    <3>2. CASE row[r].shift = s
      BY <2>4, <2>5, <2>6, <3>1, <3>2 DEF DoubleBooks, StaffingOn, IsStaffing
    <3>3. CASE row[x].shift = s
      <4>1. ~Overlap(j.target, time[row[r].shift])
        BY <2>5, <2>6, <3>1, <3>3 DEF DoubleBooks, StaffingOn, IsStaffing
      <4> QED BY <2>4, <3>1, <3>3, <4>1, OverlapSymmetric
    <3>4. CASE row[r].shift # s /\ row[x].shift # s
      BY <1>0, <2>4, <2>6, <3>1, <3>4 DEF TablesGood, NoDoubleBooking
    <3> QED BY <3>2, <3>3, <3>4
  <2>7. NoDoubleBooking'
    BY <1>0, <2>6 DEF NoDoubleBooking, Overlap, From, To
  <2>8. ASSUME NEW o \in Reqs \ {q}
        PROVE  Spares(o)
    <3>1. SeatKey(s) \notin held[o] /\ \A p \in LiveOn(s) : PersonKey(p) \notin held[o]
      BY <1>0, <2>5, NotHeld
    <3>2. SparesRows(o)
      BY <1>0, <1>a, <2>4, <3>1 DEF SparesRows, IsStaffing, LiveOn, StaffingOn
    <3>3. SparesSwaps(o)
      BY <1>0 DEF SparesSwaps, Exists, Pending
    <3> QED BY <3>2, <3>3 DEF Spares
  <2> QED BY <1>2, <2>7, <2>8 DEF TablesGood
<1> QED BY <1>3, <1>4

\* Blocking a day touches no booking.
LEMMA BlockGood ==
  ASSUME IInv, NEW q \in Reqs, BlockWrite(q)
  PROVE  TablesGood' /\ \A o \in Reqs \ {q} : Spares(o)
<1>1. TablesGood'
  BY DEF BlockWrite, IInv, TablesGood, RowsUnique, SwapsNamed, NoDoubleBooking, Exists,
         Pending, Overlap, From, To
<1>2. ASSUME NEW o \in Reqs
      PROVE  Spares(o)
  BY DEF BlockWrite, Spares, SparesRows, SparesSwaps, Exists, Pending, IsStaffing
<1> QED BY <1>1, <1>2

\* The single statements seat nobody and re-time nothing; what they close or
\* delete they wait for.
LEMMA StatementGood ==
  ASSUME IInv, Statement
  PROVE  TablesGood' /\ \A o \in Reqs : Spares(o)
<1>0. /\ TypeOK /\ TypeInv /\ TablesGood /\ UNCHANGED <<time, quantity, mix, status>>
  BY IInvTypes DEF IInv, TablesGood, Statement, RaiseSwap, CloseSwap, StandDown, Finish,
                   Remove, Withdraw, Unblock
<1>1. ASSUME NEW w \in SwapIds, NEW r \in RowIds, RaiseSwap(w, r)
      PROVE  TablesGood' /\ \A o \in Reqs : Spares(o)
  <2>1. PICK s \in posted :
            swap' = [swap EXCEPT ![w] = [status |-> "pending", row |-> r, to |-> s]]
    BY <1>1 DEF RaiseSwap
  <2>2. /\ "swap" \in Lanes /\ swap[w].status = "unborn" /\ IsStaffing(r)
        /\ \A o \in SwapIds : ~(Pending(o) /\ swap[o].row = r)
        /\ row' = row /\ posted' = posted
    BY <1>1 DEF RaiseSwap
  <2>3. /\ swap'[w] = [status |-> "pending", row |-> r, to |-> s]
        /\ \A x \in SwapIds \ {w} : swap'[x] = swap[x]
    BY <1>0, <2>1 DEF TypeOK
  <2>4. SwapsNamed'
    BY <1>0, <2>2, <2>3 DEF TypeOK, TablesGood, SwapsNamed, Pending, Exists, IsStaffing
  <2>5. RowsUnique' /\ NoDoubleBooking'
    BY <1>0, <2>2 DEF TablesGood, RowsUnique, NoDoubleBooking, Exists, Overlap, From, To
  <2>6. \A o \in Reqs : Spares(o)
    BY <1>0, <2>2, <2>3 DEF Spares, SparesRows, SparesSwaps, Exists, Pending, IsStaffing
  <2> QED BY <2>4, <2>5, <2>6 DEF TablesGood
<1>2. ASSUME NEW w \in SwapIds, CloseSwap(w)
      PROVE  TablesGood' /\ \A o \in Reqs : Spares(o)
  <2>1. /\ Available(SwapRow(w)) /\ row' = row /\ posted' = posted
        /\ swap'[w].status = "closed" /\ \A x \in SwapIds \ {w} : swap'[x] = swap[x]
    BY <1>0, <1>2 DEF CloseSwap, TypeOK, ClosedSwap, NoSwap
  <2>2. TablesGood'
    BY <1>0, <2>1 DEF TablesGood, SwapsNamed, Pending, Exists, RowsUnique, NoDoubleBooking,
                      Overlap, From, To
  <2>3. \A o \in Reqs : Spares(o)
    BY <1>0, <2>1 DEF Spares, SparesRows, SparesSwaps, Exists, Pending, IsStaffing, Available
  <2> QED BY <2>2, <2>3
<1>3. ASSUME NEW n \in RowIds, StandDown(n) \/ Finish(n)
      PROVE  TablesGood' /\ \A o \in Reqs : Spares(o)
  <2>1. /\ IsStaffing(n) /\ row'[n].status \in {"off", "done"}
        /\ row'[n].shift = row[n].shift /\ row'[n].person = row[n].person
        /\ row'[n].agency = row[n].agency
        /\ \A r \in RowIds \ {n} : row'[r] = row[r]
        /\ swap' = swap /\ posted' = posted
    BY <1>0, <1>3 DEF StandDown, Finish, TypeOK, Row, IsStaffing
  <2>2. \A r \in RowIds : /\ row'[r].shift = row[r].shift /\ row'[r].person = row[r].person
                          /\ row'[r].agency = row[r].agency
    BY <2>1
  <2>a. \A r \in RowIds : row'[r].status = "working" => row[r].status = "working"
    BY <2>1
  <2>b. \A r \in RowIds :
            /\ Exists(r)' <=> Exists(r)
            /\ IsStaffing(r)' => IsStaffing(r)
            /\ row[r].status = "gone" => row'[r].status = "gone"
    BY <2>1 DEF Exists, IsStaffing
  <2>3. RowsUnique'
    <3>1. \A r, x \in RowIds : Exists(r) /\ Exists(x) /\ row'[r].person = row'[x].person
                                /\ row'[r].shift = row'[x].shift => r = x
      BY <1>0, <2>2 DEF TablesGood, RowsUnique
    <3>2. \A r \in RowIds : Exists(r)' => Exists(r)
      BY <2>b DEF Exists, IsStaffing
    <3>3. ASSUME NEW r \in RowIds, NEW x \in RowIds, Exists(r)', Exists(x)',
                 row'[r].person = row'[x].person, row'[r].shift = row'[x].shift
          PROVE  r = x
      BY <3>1, <3>2, <3>3 DEF Exists
    <3> QED BY <3>3 DEF RowsUnique, Exists
  <2>4. SwapsNamed'
    BY <1>0, <2>1, <2>b DEF TablesGood, SwapsNamed, Pending, Exists, IsStaffing
  <2>5. NoDoubleBooking'
    <3>1. \A r, x \in RowIds :
              /\ r # x /\ row'[r].status = "working" /\ row'[x].status = "working"
              /\ row'[r].person = row'[x].person
              => ~Overlap(time[row'[r].shift], time[row'[x].shift])
      BY <1>0, <2>2, <2>a DEF TablesGood, NoDoubleBooking
    <3> QED BY <1>0, <3>1 DEF NoDoubleBooking, Overlap, From, To
  <2>6. \A o \in Reqs : SparesRows(o)
    BY <1>0, <2>1, <2>2, <2>a, <2>b DEF SparesRows, Exists, IsStaffing
  <2>7. \A o \in Reqs : SparesSwaps(o)
    <3>1. \A w \in SwapIds : Pending(w) => swap[w].row \in RowIds
      BY <1>0 DEF TypeInv, SwapsFilled
    <3> QED BY <2>1, <2>2, <2>b, <3>1 DEF SparesSwaps, Pending, Exists, IsStaffing
  <2> QED BY <2>3, <2>4, <2>5, <2>6, <2>7 DEF TablesGood, Spares
<1>4. ASSUME NEW n \in RowIds, Remove(n)
      PROVE  TablesGood' /\ \A o \in Reqs : Spares(o)
  <2>1. /\ Available(PersonRow(n)) /\ posted' = posted
        /\ row'[n].status = "gone" /\ \A r \in RowIds \ {n} : row'[r] = row[r]
        /\ \A x \in SwapIds : IF swap[x].row = n THEN swap'[x].status = "closed"
                                                 ELSE swap'[x] = swap[x]
    BY <1>0, <1>4 DEF Remove, TypeOK, Gone, NoRow, ClosedSwap, NoSwap
  <2>2. TablesGood'
    BY <1>0, <2>1 DEF TablesGood, SwapsNamed, Pending, Exists, RowsUnique, NoDoubleBooking,
                      Overlap, From, To
  <2>3. \A o \in Reqs : Spares(o)
    BY <1>0, <2>1 DEF Spares, SparesRows, SparesSwaps, Exists, Pending, IsStaffing, Available,
                      TypeInv, SwapsFilled
  <2> QED BY <2>2, <2>3
<1>5. ASSUME NEW s \in Shifts, Withdraw(s)
      PROVE  TablesGood' /\ \A o \in Reqs : Spares(o)
  <2> DEFINE onIt == {r \in RowIds : Exists(r) /\ row[r].shift = s}
  <2>1. /\ Available(ShiftRow(s)) /\ posted' = posted \ {s}
        /\ \A r \in onIt : Available(PersonRow(r))
        /\ \A r \in RowIds : IF r \in onIt THEN row'[r].status = "gone"
                                            ELSE row'[r] = row[r]
        /\ \A x \in SwapIds :
              \/ swap'[x] = swap[x] /\ (Pending(x) => swap[x].row \notin onIt)
              \/ Available(SwapRow(x)) /\ swap'[x].status = "closed"
    BY <1>0, <1>5 DEF Withdraw, TypeOK, Gone, NoRow, ClosedSwap, NoSwap
  <2>2. TablesGood'
    BY <1>0, <2>1 DEF TablesGood, SwapsNamed, Pending, Exists, RowsUnique, NoDoubleBooking,
                      Overlap, From, To
  <2>3. \A o \in Reqs : Spares(o)
    BY <1>0, <2>1 DEF Spares, SparesRows, SparesSwaps, Exists, Pending, IsStaffing, Available,
                      TypeInv, SwapsFilled
  <2> QED BY <2>2, <2>3
<1>6. ASSUME Unblock
      PROVE  TablesGood' /\ \A o \in Reqs : Spares(o)
  BY <1>0, <1>6 DEF Unblock, TablesGood, RowsUnique, SwapsNamed, NoDoubleBooking, Exists,
    Pending, Overlap, From, To, Spares, SparesRows, SparesSwaps, IsStaffing
<1> QED BY <1>1, <1>2, <1>3, <1>4, <1>5, <1>6 DEF Statement

(***************************************************************************)
(* The request that takes the step                                         *)
(***************************************************************************)

\* A request that has just passed its check read its own row as it stands.
LEMMA AskKnows ==
  ASSUME IInv, NEW q \in Reqs, Ask(q)
  PROVE  Current(q)' /\ Cleared(q)'
<1>0. /\ TypeOK /\ TypeInv /\ TypeInv' /\ TypeOK'
  BY IInvTypes, AskTypes DEF TypeInv
<1>1. pc'[q] = "checked" /\ UNCHANGED table
  BY <1>0 DEF Ask, AskCreate, AskRestaff, AskApprove, AskEdit, AskBlock, Start, TypeOK, table
<1>2. Cleared(q)'
  BY <1>1 DEF Cleared
<1>3. CASE AskRestaff(q)
  <2>1. PICK r \in RowIds :
            /\ row[r].status = "off"
            /\ job'[q] = SeatRequest("restaff", r, None, row[r].shift, row[r].person,
                                     row[r].agency, None)
    BY <1>0, <1>3 DEF AskRestaff, Start, TypeOK
  <2> QED BY <1>1, <1>2, <2>1 DEF Current, Unmoved, SeatRequest, Exists, table
<1>4. CASE AskApprove(q)
  <2>1. PICK w \in SwapIds :
            LET r == swap[w].row IN
            /\ Pending(w)
            /\ job'[q] = SeatRequest("swap", r, w, swap[w].to, row[r].person,
                                     row[r].agency, row[r].shift)
    BY <1>0, <1>4 DEF AskApprove, Start, TypeOK
  <2> QED BY <1>1, <1>2, <2>1 DEF Current, Unmoved, SeatRequest, Pending, table
<1>5. CASE ~AskRestaff(q) /\ ~AskApprove(q)
  <2>1. job'[q].lane \in {"create", "edit", "block"}
    <3>1. CASE AskCreate(q)
      BY <1>0, <3>1 DEF AskCreate, SeatRequest, Start, TypeOK
    <3>2. CASE AskEdit(q)
      BY <1>0, <3>2 DEF AskEdit, Start, TypeOK
    <3>3. CASE AskBlock(q)
      BY <1>0, <3>3 DEF AskBlock, Start, TypeOK
    <3> QED BY <1>5, <3>1, <3>2, <3>3 DEF Ask
  <2> QED BY <1>2, <2>1 DEF Current
<1> QED BY <1>2, <1>3, <1>4, <1>5

\* A request that moves on judges what the next stage says is judged.
LEMMA ProceedKnows ==
  ASSUME Guarded, IInv, NEW q \in Reqs, Proceed(q)
  PROVE  Current(q)' /\ Cleared(q)'
<1> DEFINE j == job[q]
<1>0. /\ TypeOK /\ Stage(q) /\ Current(q) /\ Cleared(q)
  BY DEF IInv
<1>1. ASSUME Finished(q)
      PROVE  Current(q)' /\ Cleared(q)'
  <2>1. job'[q] = NoJob /\ pc'[q] = "idle"
    BY <1>0, <1>1 DEF Finished, TypeOK
  <2> QED BY <2>1 DEF Current, Cleared, NoJob
<1>2. ASSUME NEW ks, NEW next \in {"venue", "seats", "judged"}, Took(q, ks, next)
      PROVE  /\ Current(q)'
             /\ pc'[q] = next /\ job'[q] = j /\ held'[q] = held[q] \cup ks
             /\ UNCHANGED table
  <2>1. /\ pc'[q] = next /\ job'[q] = j /\ held'[q] = held[q] \cup ks
        /\ UNCHANGED table
    BY <1>0, <1>2 DEF Took, TypeOK, table
  <2> QED BY <1>0, <1>2, <2>1 DEF Current, Unmoved, Exists, Pending, table
<1>3. CASE LockSeats(q)
  <2>1. Took(q, {SeatKey(j.shift)}, "seats") /\ j \in SeatJob
    BY <1>0, <1>3, JobLanes DEF LockSeats
  <2>2. pc'[q] = "seats" /\ job'[q] = j /\ Current(q)'
    BY <1>2, <2>1
  <2> QED BY <2>1, <2>2 DEF Cleared, SeatJob, SeatOn, EditJob
<1>4. CASE LockBooking(q)
  <2>1. CASE Judged(j) /\ Took(q, {PersonKey(j.person)}, "judged")
    <3>1. pc'[q] = "judged" /\ job'[q] = j /\ Current(q)' /\ UNCHANGED table
      BY <1>2, <2>1
    <3>2. j \in SeatJob /\ j \notin EditJob
      BY <1>0, <1>4, JobLanes DEF LockBooking, SeatLanes, EditJob
    <3> QED BY <2>1, <3>1, <3>2 DEF Cleared, Judged, Clashes, Overlap, From, To, table
  <2> QED BY <1>1, <1>4, <2>1 DEF LockBooking, Refused
<1>5. CASE Count(q)
  <2>1. CASE Verdict(j) /\ Took(q, RowLocks(j), "counted")
    <3>1. pc'[q] = "counted" /\ job'[q] = j /\ UNCHANGED table
      BY <1>0, <2>1 DEF Took, TypeOK, table
    <3>2. j \in SeatJob /\ j \notin EditJob /\ pc[q] = "judged"
      BY <1>0, <1>5, JobLanes DEF Count, SeatLanes, EditJob
    <3>3. j.shift \in posted /\ (j.lane = "swap" => Pending(j.request))
      BY <2>1 DEF Verdict
    <3>4. Cleared(q)'
      <4>1. ~Clashes(j.person, j.shift, j.vacating)'
        BY <1>0, <3>1, <3>2, <3>3 DEF Cleared, Clashes, Overlap, From, To, table
      <4>2. HasSeat(j.shift, BucketOf(j.agency, j.person))'
        BY <2>1, <3>1 DEF Verdict, HasSeat, SeatFor, StaffingOn, IsStaffing, RowBucket, BucketOf,
                          TotalAsked, table
      <4>3. j.shift \in posted' /\ status' = status /\ time' = time /\ row' = row
        BY <3>1, <3>3 DEF table
      <4>4. j.lane = "swap" => status[j.shift] = "open"
                               /\ time[row[j.row].shift].day = time[j.shift].day
        BY <2>1 DEF Verdict
      <4> QED BY <3>1, <3>2, <4>1, <4>2, <4>3, <4>4 DEF Cleared
    <3>5. Current(q)'
      BY <1>0, <3>1, <3>3 DEF Current, Unmoved, Exists, Pending, table
    <3> QED BY <3>4, <3>5
  <2> QED BY <1>1, <1>5, <2>1 DEF Count, Refused
<1>6. CASE EditVenue(q)
  <2>1. CASE Took(q, {VenueKey(VenueOf[j.shift])}, IF j.timing THEN "venue" ELSE "judged")
    <3>1. job'[q] = j /\ Current(q)' /\ pc'[q] = IF j.timing THEN "venue" ELSE "judged"
      BY <1>2, <2>1
    <3>2. j \in EditJob /\ j \notin SeatJob
      BY <1>0, <1>6, JobLanes DEF EditVenue, SeatLanes
    <3> QED BY <3>1, <3>2 DEF Cleared
  <2> QED BY <1>1, <1>6, <2>1 DEF EditVenue, Refused
<1>7. CASE EditSeats(q)
  <2>1. Took(q, {SeatKey(j.shift)}, "seats") /\ todo'[q] = LiveOn(j.shift)
    BY <1>0, <1>7 DEF EditSeats, TypeOK
  <2>2. pc'[q] = "seats" /\ job'[q] = j /\ Current(q)' /\ UNCHANGED table
    BY <1>2, <2>1
  <2>3. j \in EditJob /\ j \notin SeatJob
    BY <1>0, <1>7, JobLanes DEF EditSeats, SeatLanes
  <2> QED BY <2>1, <2>2, <2>3 DEF Cleared, LiveOn, StaffingOn, IsStaffing, table
<1>8. CASE EditBooking(q)
  <2>1. PICK p \in todo[q] : Took(q, {PersonKey(p)}, "seats") /\ todo'[q] = todo[q] \ {p}
    BY <1>0, <1>8 DEF EditBooking, TypeOK
  <2>2. /\ pc'[q] = "seats" /\ job'[q] = j /\ Current(q)' /\ UNCHANGED table
        /\ held'[q] = held[q] \cup {PersonKey(p)}
    BY <1>2, <2>1
  <2>3. j \in EditJob /\ j \notin SeatJob /\ pc[q] = "seats"
    BY <1>0, <1>8, JobLanes DEF EditBooking, SeatLanes
  <2> QED BY <1>0, <2>1, <2>2, <2>3 DEF Cleared, LiveOn, StaffingOn, IsStaffing, table
<1>9. CASE EditJudge(q)
  <2>1. CASE ~DoubleBooks(j.shift, j.target) /\ Took(q, {}, "judged")
    <3>1. /\ pc'[q] = "judged" /\ job'[q] = j /\ Current(q)' /\ UNCHANGED table
          /\ held'[q] = held[q]
      BY <1>2, <2>1
    <3>2. j \in EditJob /\ j \notin SeatJob /\ pc[q] = "seats" /\ todo[q] = {}
      BY <1>0, <1>9, JobLanes DEF EditJudge, SeatLanes
    <3>3. j.timing => \A p \in LiveOn(j.shift) : PersonKey(p) \in held[q]
      BY <1>0, <3>2 DEF Cleared
    <3>4. LiveOn(j.shift)' = LiveOn(j.shift)
      BY <3>1 DEF LiveOn, StaffingOn, IsStaffing, table
    <3>5. DoubleBooks(j.shift, j.target)' <=> DoubleBooks(j.shift, j.target)
      BY <3>1 DEF DoubleBooks, StaffingOn, IsStaffing, Overlap, From, To, table
    <3> QED BY <2>1, <3>1, <3>2, <3>3, <3>4, <3>5 DEF Cleared
  <2> QED BY <1>1, <1>9, <2>1 DEF EditJudge, Refused
<1>10. CASE WriteCreate(q) \/ WriteRestaff(q) \/ WriteSwap(q) \/ EditWrite(q) \/ BlockWrite(q)
  BY <1>1, <1>10 DEF WriteCreate, WriteRestaff, WriteSwap, EditWrite, BlockWrite
<1> QED BY <1>3, <1>4, <1>5, <1>6, <1>7, <1>8, <1>9, <1>10 DEF Proceed

(***************************************************************************)
(* The theorem                                                             *)
(***************************************************************************)

\* A step of a request that writes no table leaves it as it was.
LEMMA WriteOrStill ==
  ASSUME NEW q \in Reqs, Ask(q) \/ Proceed(q)
  PROVE  \/ UNCHANGED table
         \/ WriteCreate(q) \/ WriteRestaff(q) \/ WriteSwap(q) \/ EditWrite(q) \/ BlockWrite(q)
  BY DEF Ask, AskCreate, AskRestaff, AskApprove, AskEdit, AskBlock, Start, Proceed, LockSeats,
         LockBooking, Count, EditVenue, EditSeats, EditBooking, EditJudge, Took, Refused, table

\* A step of one request preserves IInv.
LEMMA RequestStep ==
  ASSUME Guarded, IInv, NEW q \in Reqs, Ask(q) \/ Proceed(q), TypeInv', LocksApart'
  PROVE  IInv'
<1>0. TypeOK /\ TablesGood
  BY DEF IInv, TablesGood
<1>1. TablesGood' /\ \A o \in Reqs \ {q} : Spares(o)
  BY <1>0, Still, WriteOrStill, CreateGood, RestaffGood, SwapGood, EditGood, BlockGood
<1>2. ASSUME NEW o \in Reqs
      PROVE  Stage(o)' /\ Current(o)' /\ Cleared(o)'
  <2>1. CASE o = q
    BY <2>1, StageAsk, StageProceed, AskKnows, ProceedKnows
  <2>2. CASE o # q
    <3>1. Quiet(o) /\ Spares(o)
      BY <1>0, <1>1, <2>2, OthersQuiet
    <3>2. Stage(o)'
      BY <3>1 DEF IInv, Quiet, Stage, SeatStage, EditStage
    <3> QED BY <3>1, <3>2, SparedClear, SparedCurrent DEF Spares
  <2> QED BY <2>1, <2>2
<1> QED BY <1>1, <1>2 DEF IInv, TablesGood, TypeInv

\* What spares every request and keeps the tables good keeps IInv.
LEMMA Undisturbed ==
  ASSUME Guarded, IInv, TypeInv', LocksApart', TablesGood',
         \A o \in Reqs : Spares(o) /\ Quiet(o)
  PROVE  IInv'
<1>1. ASSUME NEW o \in Reqs
      PROVE  Stage(o)' /\ Current(o)' /\ Cleared(o)'
  <2>1. Stage(o)'
    BY DEF IInv, Quiet, Stage, SeatStage, EditStage
  <2> QED BY <2>1, SparedClear, SparedCurrent DEF Spares
<1> QED BY <1>1 DEF IInv, TablesGood, TypeInv

\* A single statement preserves IInv.
LEMMA StatementStep ==
  ASSUME Guarded, IInv, Statement, TypeInv', LocksApart'
  PROVE  IInv'
<1>1. TablesGood' /\ \A o \in Reqs : Spares(o)
  BY StatementGood
<1>2. \A o \in Reqs : Quiet(o)
  BY DEF Statement, RaiseSwap, CloseSwap, StandDown, Finish, Remove, Withdraw, Unblock,
         requests, Quiet
<1> QED BY <1>1, <1>2, Undisturbed

\* The tables as first posted, with no request under way, satisfy IInv.
LEMMA IInvInit == Init => IInv
<1> SUFFICES ASSUME Init PROVE IInv
  OBVIOUS
<1>1. TypeInv
  BY InitTypes
<1>2. LocksApart /\ RowsUnique /\ SwapsNamed /\ NoDoubleBooking
  BY DEF Init, LocksApart, RowsUnique, SwapsNamed, NoDoubleBooking, Exists, Pending, NoRow, NoSwap
<1>3. \A q \in Reqs : Stage(q) /\ Current(q) /\ Cleared(q)
  BY DEF Init, Stage, Current, Cleared, NoJob
<1> QED BY <1>1, <1>2, <1>3 DEF IInv, TypeInv

\* One request, one statement or none: IInv is preserved by every step.
LEMMA IInvStep == Guarded /\ IInv /\ [Next]_vars => IInv'
<1> SUFFICES ASSUME Guarded, IInv, [Next]_vars PROVE IInv'
  OBVIOUS
<1>1. TypeInv /\ LocksApart'
  BY IInvTypes, LocksStep DEF IInv
<1>2. ASSUME NEW q \in Reqs, Ask(q) \/ Proceed(q)
      PROVE  IInv'
  BY <1>1, <1>2, AskTypes, SeatStepTypes, SeatWriteTypes, EditTypes, RequestStep DEF Proceed
<1>3. CASE Statement
  BY <1>1, <1>3, StatementTypes, StatementStep
<1>4. CASE UNCHANGED vars
  <2>1. TablesGood' /\ \A o \in Reqs : Spares(o)
    BY <1>4, Still DEF vars, table, IInv, TablesGood
  <2>2. \A o \in Reqs : Quiet(o)
    BY <1>4 DEF vars, Quiet
  <2>3. TypeInv'
    BY <1>1, <1>4 DEF vars, TypeInv, TypeOK, RowsFilled, SwapsFilled, Exists, Pending
  <2> QED BY <1>1, <2>1, <2>2, <2>3, Undisturbed
<1> QED BY <1>2, <1>3, <1>4 DEF Next

\* The inductive invariant of the lanes, for any shifts, PRs, rows and requests,
\* under the two hypotheses of Guarded.
THEOREM SeatingInvariance == Guarded => (Spec => []IInv)
<1>1. ASSUME Guarded
      PROVE  Spec => []IInv
  <2>1. IInv /\ [Next]_vars => IInv'
    BY <1>1, IInvStep
  <2> QED BY <2>1, IInvInit, PTL DEF Spec
<1> QED BY <1>1

\* However many shifts, PRs, rows and requests there are, and however the lanes
\* interleave, no PR holds two open bookings that overlap, provided every edit
\* that names the time names the whole of a new one, and re-staffing and swap
\* approval do not run side by side.
THEOREM NobodyInTwoPlaces == Guarded => (Spec => []NoDoubleBooking)
<1>1. IInv => NoDoubleBooking
  BY DEF IInv
<1>2. ASSUME Guarded
      PROVE  Spec => []NoDoubleBooking
  <2>1. Spec => []IInv
    BY <1>2, SeatingInvariance
  <2> QED BY <1>1, <2>1, PTL
<1> QED BY <1>2

(***************************************************************************)
(* Every lane decides atomically                                           *)
(***************************************************************************)

\* `Roster' asks the questions of `Seating': both read them off RosterState.
LEMMA SameRules ==
  /\ \A r : Atomic!Exists(r) <=> Exists(r)
  /\ \A r : Atomic!IsStaffing(r) <=> IsStaffing(r)
  /\ \A w : Atomic!Pending(w) <=> Pending(w)
  /\ \A r : Atomic!RowBucket(r) = RowBucket(r)
  /\ \A a, p : Atomic!BucketOf(a, p) = BucketOf(a, p)
  /\ \A p, s : Atomic!HasRow(p, s) <=> HasRow(p, s)
  /\ \A p, s, v : Atomic!Clashes(p, s, v) <=> Clashes(p, s, v)
  /\ \A s, t : Atomic!DoubleBooks(s, t) <=> DoubleBooks(s, t)
<1>1. /\ \A r : Atomic!Exists(r) <=> Exists(r)
      /\ \A r : Atomic!IsStaffing(r) <=> IsStaffing(r)
      /\ \A w : Atomic!Pending(w) <=> Pending(w)
  BY DEF Atomic!Exists, Exists, Atomic!IsStaffing, IsStaffing, Atomic!Pending, Pending
<1>2. /\ \A r : Atomic!RowBucket(r) = RowBucket(r)
      /\ \A a, p : Atomic!BucketOf(a, p) = BucketOf(a, p)
  BY DEF Atomic!RowBucket, RowBucket, Atomic!BucketOf, BucketOf
<1>3. \A p, s : Atomic!HasRow(p, s) <=> HasRow(p, s)
  BY DEF Atomic!HasRow, HasRow, Atomic!Exists, Exists
<1>4. \A t, u : Atomic!Overlap(t, u) <=> Overlap(t, u)
  BY DEF Atomic!Overlap, Overlap, Atomic!From, From, Atomic!To, To
<1>5. \A p, s, v : Atomic!Clashes(p, s, v) <=> Clashes(p, s, v)
  BY <1>4 DEF Atomic!Clashes, Clashes
<1>6. \A s : Atomic!StaffingOn(s) = StaffingOn(s)
  BY <1>1 DEF Atomic!StaffingOn, StaffingOn
<1>7. \A s, t : Atomic!DoubleBooks(s, t) <=> DoubleBooks(s, t)
  BY <1>1, <1>4, <1>6 DEF Atomic!DoubleBooks, DoubleBooks
<1> QED BY <1>1, <1>2, <1>3, <1>5, <1>7

\* ... and a seat is the same seat to both.
LEMMA SameSeat == \A s, b : Atomic!HasSeat(s, b) <=> HasSeat(s, b)
<1>1. \A s : Atomic!StaffingOn(s) = StaffingOn(s)
  BY DEF Atomic!StaffingOn, StaffingOn, Atomic!IsStaffing, IsStaffing
<1>2. \A r : Atomic!RowBucket(r) = RowBucket(r)
  BY DEF Atomic!RowBucket, RowBucket, Atomic!BucketOf, BucketOf
<1>3. \A m : Atomic!TotalAsked(m) = TotalAsked(m)
  BY DEF Atomic!TotalAsked, TotalAsked, Atomic!SumFunction, SumFunction,
         Atomic!SumFunctionOnSet, SumFunctionOnSet, Atomic!FoldFunctionOnSet, FoldFunctionOnSet,
         Atomic!MapThenFoldSet, MapThenFoldSet
<1>4. \A s, b : {r \in StaffingOn(s) : Atomic!RowBucket(r) = b}
                  = {r \in StaffingOn(s) : RowBucket(r) = b}
  BY <1>2
<1>5. \A s : {r \in StaffingOn(s) :
                 Atomic!RowBucket(r) \in Buckets => mix[s][Atomic!RowBucket(r)] = 0}
               = {r \in StaffingOn(s) : RowBucket(r) \in Buckets => mix[s][RowBucket(r)] = 0}
  BY <1>2
<1>6. \A S : Atomic!Cardinality(S) = Cardinality(S)
  BY DEF Atomic!Cardinality, Cardinality
<1> QED BY <1>1, <1>2, <1>3, <1>4, <1>5, <1>6
        DEF Atomic!HasSeat, HasSeat, Atomic!SeatFor, SeatFor

\* A new row is `Roster's Seat: what was judged and counted under the locks
\* holds of the roster as the row lands.
LEMMA CreateDecides ==
  ASSUME IInv, NEW q \in Reqs, WriteCreate(q)
  PROVE  [Atomic!Next]_table
<1> DEFINE j == job[q]
<1>1. CASE row' = row
  BY <1>1 DEF WriteCreate, table
<1>2. CASE row' # row
  <2>1. PICK n \in RowIds :
            /\ row[n].status = "unborn"
            /\ row' = [row EXCEPT ![n] = [status |-> "working", shift |-> j.shift,
                                          person |-> j.person, agency |-> j.agency]]
    BY <1>2 DEF WriteCreate
  <2>2. /\ ~HasRow(j.person, j.shift) /\ pc[q] = "counted" /\ j.lane = "create"
        /\ UNCHANGED <<posted, time, quantity, mix, status, swap, blocked>>
    BY <1>2 DEF WriteCreate
  <2>3. /\ j \in SeatJob /\ ~Clashes(j.person, j.shift, None)
        /\ j.shift \in Shifts /\ j.person \in Persons /\ j.agency \in Agencies
    BY <2>2, CountedKnows DEF SeatJob, SeatOn
  <2>4. j.shift \in posted /\ HasSeat(j.shift, BucketOf(j.agency, j.person))
    BY <2>2, <2>3 DEF IInv, Cleared
  <2>5. Atomic!Seat(n, j.shift, j.person, j.agency)
    BY <2>1, <2>2, <2>3, <2>4, SameRules, SameSeat DEF Atomic!Seat
  <2> QED BY <2>3, <2>5 DEF Atomic!Next
<1> QED BY <1>1, <1>2

\* A row put back is still on the shift it was judged for.
LEMMA RestaffDecides ==
  ASSUME IInv, NEW q \in Reqs, WriteRestaff(q)
  PROVE  [Atomic!Next]_table
<1> DEFINE j == job[q]
           n == j.row
<1>1. CASE row[n].status # "off"
  BY <1>1 DEF WriteRestaff, table
<1>2. CASE row[n].status = "off"
  <2>1. /\ pc[q] = "counted" /\ j.lane = "restaff"
        /\ row' = [row EXCEPT ![n].status = "working"]
        /\ UNCHANGED <<posted, time, quantity, mix, status, swap, blocked>>
    BY <1>2 DEF WriteRestaff
  <2>2. j \in SeatJob /\ ~Clashes(j.person, j.shift, None) /\ n \in RowIds
    BY <2>1, CountedKnows DEF SeatJob, SeatOn
  <2>3. row[n].shift = j.shift /\ row[n].person = j.person /\ row[n].agency = j.agency
    BY <1>2, <2>1 DEF IInv, Current, Unmoved
  <2>4. HasSeat(j.shift, BucketOf(j.agency, j.person))
    BY <2>1, <2>2 DEF IInv, Cleared
  <2>5. HasSeat(row[n].shift, RowBucket(n))
    BY <2>3, <2>4 DEF RowBucket
  <2>6. Atomic!PutBack(n)
    BY <1>2, <2>1, <2>2, <2>3, <2>5, SameRules, SameSeat DEF Atomic!PutBack
  <2> QED BY <2>2, <2>6 DEF Atomic!Next
<1> QED BY <1>1, <1>2

\* An approved swap finds its request pending and its row where it was read.
LEMMA SwapDecides ==
  ASSUME IInv, NEW q \in Reqs, WriteSwap(q)
  PROVE  [Atomic!Next]_table
<1> DEFINE j == job[q]
           n == j.row
           w == j.request
<1>1. CASE row' = row /\ swap' = swap
  BY <1>1 DEF WriteSwap, table
<1>2. CASE ~(row' = row /\ swap' = swap)
  <2>1. /\ ~HasRow(j.person, j.shift)
        /\ row' = [row EXCEPT ![n].shift = j.shift]
        /\ swap' = [swap EXCEPT ![w] = ClosedSwap]
        /\ pc[q] = "counted" /\ j.lane = "swap"
        /\ UNCHANGED <<posted, time, quantity, mix, status, blocked>>
    BY <1>2 DEF WriteSwap
  <2>2. /\ j \in SeatJob /\ ~Clashes(j.person, j.shift, j.vacating)
        /\ n \in RowIds /\ w \in SwapIds
    BY <2>1, CountedKnows DEF SeatJob, SeatOn
  <2>3. /\ Pending(w) /\ swap[w].row = n /\ swap[w].to = j.shift
        /\ row[n].shift = j.vacating /\ row[n].person = j.person /\ row[n].agency = j.agency
    BY <2>1 DEF IInv, Current, Unmoved
  <2>4. /\ j.shift \in posted /\ status[j.shift] = "open"
        /\ HasSeat(j.shift, BucketOf(j.agency, j.person))
        /\ IsStaffing(n) => time[row[n].shift].day = time[j.shift].day
    BY <2>1, <2>2 DEF IInv, Cleared
  <2>5. HasSeat(j.shift, RowBucket(n))
    BY <2>3, <2>4 DEF RowBucket
  <2>6. Atomic!ClosedSwap = ClosedSwap
    BY DEF Atomic!ClosedSwap, ClosedSwap, Atomic!NoSwap, NoSwap
  <2>7. Atomic!Move(w)
    BY <2>1, <2>2, <2>3, <2>4, <2>5, <2>6, SameRules, SameSeat DEF Atomic!Move
  <2> QED BY <2>2, <2>7 DEF Atomic!Next
<1> QED BY <1>1, <1>2

\* An edit re-times a shift only to a time that double-books nobody on it.
LEMMA EditDecides ==
  ASSUME IInv, NEW q \in Reqs, EditWrite(q)
  PROVE  [Atomic!Next]_table
<1> DEFINE j == job[q]
           s == j.shift
           b == j.body
<1>0. pc[q] = "judged" /\ j.lane = "edit" /\ j \in EditJob /\ Stage(q) /\ TypeOK
  BY JobLanes DEF IInv, EditWrite
<1>1. CASE s \notin posted
  BY <1>1 DEF EditWrite, table
<1>2. CASE s \in posted
  <2>1. /\ time' = [time EXCEPT ![s] = Retimed(@, b)]
        /\ quantity' = [quantity EXCEPT ![s] = Or(b.quantity, @)]
        /\ mix' = [mix EXCEPT ![s] = Or(b.mix, @)]
        /\ status' = [status EXCEPT ![s] = Or(b.status, @)]
        /\ UNCHANGED <<posted, row, swap, blocked>>
    BY <1>2 DEF EditWrite
  <2>2. s \in Shifts /\ b \in Body /\ j.target \in Times /\ j.timing \in BOOLEAN
    BY <1>0 DEF EditJob
  <2>3. /\ time \in [Shifts -> Times] /\ quantity \in [Shifts -> Nat]
        /\ mix \in [Shifts -> Mixes] /\ status \in [Shifts -> {"open", "shut"}]
    BY <1>0 DEF TypeOK
  <2>4. time'[s] = Retimed(time[s], b) /\ time'[s] \in Times
    BY <2>1, <2>2, <2>3 DEF Retimed, Or, Body, Times
  <2>5. quantity'[s] \in Nat
    BY <2>1, <2>2, <2>3 DEF Or, Body
  <2>6. mix'[s] \in Mixes
    BY <2>1, <2>2, <2>3 DEF Or, Body
  <2>7. /\ time' = [time EXCEPT ![s] = time'[s]]
        /\ quantity' = [quantity EXCEPT ![s] = quantity'[s]]
        /\ mix' = [mix EXCEPT ![s] = mix'[s]]
        /\ status' = [status EXCEPT ![s] = status'[s]]
    BY <2>1, <2>2, <2>3
  <2>8. ASSUME time'[s] # time[s]
        PROVE  ~DoubleBooks(s, time'[s])
    <3>1. EditStage(q)
      BY <1>0, JobLanes DEF Stage, SeatJob, BlockJob, SeatOn
    <3>2. j.timing
      BY <2>2, <2>3, <2>4, <2>8, <3>1 DEF EditStage, Retimed, Or, Times
    <3>3. time'[s] = j.target
      BY <2>2, <2>4, <3>1, <3>2, NoneAssumption DEF EditStage, Retimed, Or, Times
    <3> QED BY <1>0, <3>2, <3>3 DEF IInv, Cleared
  <2>9. Atomic!Reshape(s)
    BY <1>2, <2>1, <2>4, <2>5, <2>6, <2>7, <2>8, SameRules
       DEF Atomic!Reshape, Atomic!Times, Times, Atomic!Mixes, Mixes
  <2> QED BY <2>2, <2>9 DEF Atomic!Next
<1> QED BY <1>1, <1>2

\* Each single statement is the decision it names; raising, answering and
\* blocking are `Roster's Ask.
LEMMA StatementDecides ==
  ASSUME TypeInv, TypeInv', Statement
  PROVE  [Atomic!Next]_table
<1>0. Atomic!SwapRequest = SwapRequest /\ Atomic!NoRow = NoRow /\ Atomic!ClosedSwap = ClosedSwap
  BY DEF Atomic!SwapRequest, SwapRequest, Atomic!NoRow, NoRow, Atomic!ClosedSwap, ClosedSwap,
         Atomic!NoSwap, NoSwap
<1>1. /\ swap' \in [SwapIds -> Atomic!SwapRequest]
      /\ blocked' \in SUBSET (Persons \X Days)
  BY <1>0 DEF TypeInv, TypeOK
<1>2. ASSUME UNCHANGED <<posted, time, quantity, mix, status, row>>
      PROVE  Atomic!Next
  BY <1>1, <1>2 DEF Atomic!Ask, Atomic!Next
<1>3. ASSUME NEW r \in RowIds, StandDown(r)
      PROVE  Atomic!StandDown(r)
  BY <1>3, SameRules DEF StandDown, Atomic!StandDown
<1>4. ASSUME NEW r \in RowIds, Finish(r)
      PROVE  Atomic!Finish(r)
  BY <1>4 DEF Finish, Atomic!Finish
<1>5. ASSUME NEW r \in RowIds, Remove(r)
      PROVE  Atomic!Drop(r)
  BY <1>0, <1>5, SameRules DEF Remove, Gone, Atomic!Drop
<1>6. ASSUME NEW s \in Shifts, Withdraw(s)
      PROVE  Atomic!Withdraw(s)
  <2>1. ASSUME NEW w \in SwapIds, Pending(w)
        PROVE  swap[w].row \in {r \in RowIds : Exists(r) /\ row[r].shift = s}
                 <=> row[swap[w].row].shift = s
    BY <2>1 DEF TypeInv, SwapsFilled
  <2>2. swap' = [w \in SwapIds |->
                    IF Pending(w) /\ (swap[w].to = s \/ row[swap[w].row].shift = s)
                      THEN ClosedSwap ELSE swap[w]]
    BY <1>6, <2>1 DEF Withdraw
  <2>3. row' = [r \in RowIds |-> IF Exists(r) /\ row[r].shift = s THEN Gone ELSE row[r]]
    BY <1>6 DEF Withdraw
  <2>4. s \in posted /\ posted' = posted \ {s}
        /\ UNCHANGED <<time, quantity, mix, status, blocked>>
    BY <1>6 DEF Withdraw
  <2> QED BY <1>0, <2>2, <2>3, <2>4, SameRules DEF Atomic!Withdraw, Gone
<1>7. CASE \E w \in SwapIds, r \in RowIds : RaiseSwap(w, r)
  BY <1>2, <1>7 DEF RaiseSwap
<1>8. CASE \E w \in SwapIds : CloseSwap(w)
  BY <1>2, <1>8 DEF CloseSwap
<1>9. CASE Unblock
  BY <1>2, <1>9 DEF Unblock
<1> QED BY <1>3, <1>4, <1>5, <1>6, <1>7, <1>8, <1>9 DEF Statement, Atomic!Next

\* A step of the lanes is one decision of `Roster' or leaves the tables alone.
LEMMA DecidesStep == IInv /\ TypeInv' /\ [Next]_vars => [Atomic!Next]_table
<1> SUFFICES ASSUME IInv, TypeInv', [Next]_vars PROVE [Atomic!Next]_table
  OBVIOUS
<1>1. ASSUME NEW q \in Reqs, Ask(q) \/ Proceed(q)
      PROVE  [Atomic!Next]_table
  <2>1. CASE BlockWrite(q)
    <3>1. /\ swap' \in [SwapIds -> Atomic!SwapRequest]
          /\ blocked' \in SUBSET (Persons \X Days)
      BY DEF TypeInv, TypeOK, Atomic!SwapRequest, SwapRequest
    <3> QED BY <2>1, <3>1 DEF BlockWrite, Atomic!Ask, Atomic!Next
  <2> QED BY <1>1, <2>1, WriteOrStill, CreateDecides, RestaffDecides, SwapDecides, EditDecides
<1>2. CASE Statement
  BY <1>2, IInvTypes, StatementDecides
<1>3. CASE UNCHANGED vars
  BY <1>3 DEF vars, table
<1> QED BY <1>1, <1>2, <1>3 DEF Next

\* Under the two hypotheses of Guarded, the lanes implement `Roster' for any
\* shifts, PRs, rows and requests: what each of them checks before its locks and
\* under them amounts to one decision on the roster as it stands at the commit.
THEOREM LanesDecideAtomically == Guarded => (Spec => DecidesAtomically)
<1>1. Init => Atomic!Init
  BY StartAssumption
     DEF Init, Atomic!Init, Atomic!Times, Times, Atomic!Mixes, Mixes, Atomic!NoRow, NoRow,
         Atomic!NoSwap, NoSwap
<1>2. IInv => TypeInv
  BY IInvTypes
<1>3. ASSUME Guarded
      PROVE  Spec => DecidesAtomically
  <2>1. Spec => []IInv
    BY <1>3, SeatingInvariance
  <2>2. IInv /\ TypeInv' /\ [Next]_vars => [Atomic!Next]_table
    BY DecidesStep
  <2> QED BY <1>1, <1>2, <2>1, <2>2, PTL
          DEF Spec, DecidesAtomically, Atomic!Spec, table, Atomic!table
<1> QED BY <1>3

(***************************************************************************)
(* No set of requests waits on itself                                      *)
(***************************************************************************)

\* A request at the booking locks wants one PR's, past all those it holds.
LEMMA SeatsWant ==
  ASSUME OrderInv, NEW q \in Reqs, pc[q] = "seats", Wants(q) # {}
  PROVE  \E p \in Persons : /\ Wants(q) = {PersonKey(p)}
                            /\ \A x \in Persons : PersonKey(x) \in held[q] => x < p
<1>0. TypeOK /\ Climbs(q) /\ todo[q] \subseteq Persons
  BY DEF OrderInv, TypeOK
<1>1. CASE job[q].lane \in SeatLanes
  <2>1. Wants(q) = {PersonKey(job[q].person)} /\ job[q].person \in Persons
    BY <1>0, <1>1, JobLanes DEF Wants, SeatLanes, SeatJob, SeatOn
  <2>2. \A x \in Persons : PersonKey(x) \notin held[q]
    BY <1>0, <1>1 DEF Climbs, SeatLanes, SeatKeys, SeatKey, PersonKey
  <2> QED BY <2>1, <2>2
<1>2. CASE job[q].lane = "edit"
  <2> DEFINE Least == {p \in todo[q] : \A o \in todo[q] : p <= o}
  <2>1. Wants(q) = {PersonKey(p) : p \in Least}
    BY <1>2 DEF Wants, SeatLanes
  <2>2. PICK p \in Least : TRUE
    BY <2>1
  <2>3. Least = {p}
    <3>1. ASSUME NEW x \in Least
          PROVE  x = p
      <4>1. x \in todo[q] /\ p \in todo[q] /\ x <= p /\ p <= x
        OBVIOUS
      <4>2. x \in Int /\ p \in Int
        BY <1>0, <4>1, PersonsAssumption
      <4> QED BY <4>1, <4>2
    <3> QED BY <3>1
  <2>4. \A x \in Persons : PersonKey(x) \in held[q] => x < p
    BY <1>0, <1>2 DEF Climbs, SeatLanes, VenueKeys, SeatKeys, Passed, VenueKey, SeatKey, PersonKey
  <2> QED BY <1>0, <2>1, <2>3, <2>4
<1> QED BY <1>0, <1>1, <1>2 DEF Climbs

\* What a request holds while it still wants something, by the step it is at.
LEMMA HeldSoFar ==
  ASSUME OrderInv, NEW q \in Reqs, Wants(q) # {}
  PROVE  /\ \A s : ShiftRow(s) \notin held[q]
         /\ \A w : SwapRow(w) \notin held[q]
         /\ \A r : PersonRow(r) \notin held[q]
         /\ pc[q] \notin {"seats", "judged"} => \A p, s : PersonKey(p) \notin held[q] /\ SeatKey(s) \notin held[q]
         /\ pc[q] = "checked" => held[q] = {}
<1>0. Climbs(q) /\ TypeOK
  BY DEF OrderInv
<1>1. pc[q] \in {"checked", "venue", "seats", "judged"}
  BY <1>0 DEF TypeOK, Steps, Wants
<1>2. /\ pc[q] = "checked" => held[q] = {}
      /\ pc[q] = "venue" => held[q] \subseteq VenueKeys
      /\ held[q] \subseteq VenueKeys \cup SeatKeys \cup PersonKeys
  BY <1>0, <1>1 DEF Climbs, Passed, PersonKeys
<1> QED BY <1>1, <1>2
        DEF VenueKeys, SeatKeys, PersonKeys, VenueKey, SeatKey, PersonKey, ShiftRow, SwapRow, PersonRow

\* In a set of requests that all want something, the one furthest along wants
\* what nobody holds: a row before its holder is done; failing that the last PR
\* anybody there wants; failing that a shift; failing that a venue.
LEMMA FurthestIsFree ==
  ASSUME OrderInv, NEW Q \in SUBSET Reqs, Q # {}
  PROVE  \E q \in Q : \A o \in Q \ {q} : Wants(q) \cap held[o] = {}
<1>0. TypeOK
  BY DEF OrderInv
<1>1. CASE \E q \in Q : Wants(q) = {}
  BY <1>1
<1>2. CASE \A q \in Q : Wants(q) # {}
  <2>0. \A q \in Q : pc[q] \in {"checked", "venue", "seats", "judged"}
    BY <1>0, <1>2 DEF TypeOK, Steps, Wants
  <2>1. CASE \E q \in Q : pc[q] = "judged"
    <3>1. PICK q \in Q : pc[q] = "judged"
      BY <2>1
    <3>2. Wants(q) \subseteq {ShiftRow(job[q].shift), SwapRow(job[q].request), PersonRow(job[q].row)}
      BY <3>1 DEF Wants, RowLocks
    <3> QED BY <1>2, <3>2, HeldSoFar
  <2>2. CASE (\E q \in Q : pc[q] = "seats") /\ ~\E q \in Q : pc[q] = "judged"
    <3> DEFINE S == {q \in Q : pc[q] = "seats"}
               f == [q \in S |-> CHOOSE p \in Persons : Wants(q) = {PersonKey(p)}]
    <3>1. ASSUME NEW q \in S
          PROVE  /\ f[q] \in Persons /\ Wants(q) = {PersonKey(f[q])}
                 /\ \A x \in Persons : PersonKey(x) \in held[q] => x < f[q]
      <4>1. PICK p \in Persons : /\ Wants(q) = {PersonKey(p)}
                                /\ \A x \in Persons : PersonKey(x) \in held[q] => x < p
        BY <1>2, SeatsWant
      <4>2. f[q] \in Persons /\ Wants(q) = {PersonKey(f[q])}
        BY <4>1
      <4>3. f[q] = p
        BY <4>1, <4>2 DEF PersonKey
      <4> QED BY <4>1, <4>2, <4>3
    <3>2. IsFiniteSet(S)
      <4>1. S \subseteq UnderWay
        BY DEF UnderWay
      <4> QED BY <4>1, FS_Subset DEF OrderInv
    <3>3. f \in [S -> Int]
      BY <3>1, PersonsAssumption
    <3> HIDE DEF f
    <3>4. PICK q \in S : \A o \in S : f[q] >= f[o]
      BY <2>2, <3>2, <3>3, HasTop
    <3>5. ASSUME NEW o \in Q \ {q}
          PROVE  PersonKey(f[q]) \notin held[o]
      <4>1. CASE o \in S
        BY <3>1, <3>3, <3>4, <4>1
      <4>2. CASE o \notin S
        BY <1>2, <2>2, <4>2, HeldSoFar
      <4> QED BY <4>1, <4>2
    <3> QED BY <3>1, <3>4, <3>5
  <2>3. CASE \A q \in Q : pc[q] \in {"checked", "venue"}
    <3>1. CASE \E q \in Q : \E s : Wants(q) = {SeatKey(s)}
      BY <1>2, <2>3, <3>1, HeldSoFar
    <3>2. CASE ~\E q \in Q : \E s : Wants(q) = {SeatKey(s)}
      <4>1. \A q \in Q : pc[q] = "checked"
        BY <2>3, <3>2 DEF Wants
      <4> QED BY <1>2, <4>1, HeldSoFar
    <3> QED BY <3>1, <3>2
  <2> QED BY <2>0, <2>1, <2>2, <2>3
<1> QED BY <1>1, <1>2

\* Every step keeps what a request holds before what it goes on to want.
LEMMA ClimbsStep ==
  ASSUME OrderInv, TypeInv, TypeOK', NEW q \in Reqs, Ask(q) \/ Proceed(q)
  PROVE  Climbs(q)'
<1>0. TypeOK /\ Climbs(q) /\ LiveOn(job[q].shift) \subseteq Persons
  BY DEF OrderInv, TypeInv, RowsFilled, LiveOn, StaffingOn, IsStaffing, Exists
<1>1. CASE Ask(q)
  <2>1. pc[q] = "idle" /\ pc'[q] = "checked" /\ held' = held
    BY <1>0, <1>1 DEF TypeOK, Ask, AskCreate, AskRestaff, AskApprove, AskEdit, AskBlock, Start
  <2> QED BY <1>0, <2>1 DEF Climbs
<1>2. ASSUME pc'[q] = "idle", held'[q] = {}
      PROVE  Climbs(q)'
  BY <1>2 DEF Climbs
<1>3. CASE Finished(q)
  <2>1. pc'[q] = "idle" /\ held'[q] = {}
    BY <1>0, <1>3 DEF TypeOK, Finished
  <2> QED BY <1>2, <2>1
<1>4. CASE LockSeats(q) /\ ~Finished(q)
  <2>1. /\ pc[q] = "checked" /\ job[q].lane \in SeatLanes /\ pc'[q] = "seats"
        /\ job' = job /\ held'[q] = held[q] \cup {SeatKey(job[q].shift)}
    BY <1>0, <1>4 DEF TypeOK, LockSeats, Took
  <2>2. job[q].shift \in Shifts
    BY <1>0, <2>1, JobLanes DEF SeatJob, SeatOn
  <2> QED BY <1>0, <2>1, <2>2 DEF Climbs, SeatKeys
<1>5. CASE LockBooking(q) /\ ~Finished(q)
  <2>1. /\ pc[q] = "seats" /\ job[q].lane \in SeatLanes /\ pc'[q] = "judged"
        /\ job' = job /\ held'[q] = held[q] \cup {PersonKey(job[q].person)}
    BY <1>0, <1>5 DEF TypeOK, LockBooking, Took, Refused
  <2>2. job[q].person \in Persons
    BY <1>0, <2>1, JobLanes DEF SeatJob, SeatOn
  <2> QED BY <1>0, <2>1, <2>2 DEF Climbs, PersonKeys, SeatLanes
<1>6. CASE Count(q) /\ ~Finished(q)
  <2>1. job[q].lane \in SeatLanes /\ pc'[q] = "counted" /\ job' = job
    BY <1>0, <1>6 DEF TypeOK, Count, Took, Refused
  <2> QED BY <2>1 DEF Climbs
<1>7. CASE EditVenue(q) /\ ~Finished(q)
  <2>1. /\ pc[q] = "checked" /\ job[q].lane = "edit" /\ pc'[q] \in {"venue", "judged"}
        /\ job' = job /\ held'[q] = held[q] \cup {VenueKey(VenueOf[job[q].shift])}
    BY <1>0, <1>7 DEF TypeOK, EditVenue, Took, Refused
  <2>2. VenueOf[job[q].shift] \in Venues
    BY <1>0, <2>1, JobLanes, VenuesAssumption DEF EditJob
  <2> QED BY <1>0, <2>1, <2>2 DEF Climbs, VenueKeys
<1>8. CASE EditSeats(q)
  <2>1. /\ pc[q] = "venue" /\ job[q].lane = "edit" /\ pc'[q] = "seats"
        /\ job' = job /\ held'[q] = held[q] \cup {SeatKey(job[q].shift)}
    BY <1>0, <1>8 DEF TypeOK, EditSeats, Took
  <2>2. job[q].shift \in Shifts
    BY <1>0, <2>1, JobLanes DEF EditJob
  <2> QED BY <1>0, <2>1, <2>2 DEF Climbs, SeatKeys
<1>9. CASE EditBooking(q)
  <2>1. PICK p \in todo[q] :
          /\ pc[q] = "seats" /\ job[q].lane = "edit" /\ \A o \in todo[q] : p <= o
          /\ Took(q, {PersonKey(p)}, "seats")
          /\ todo' = [todo EXCEPT ![q] = @ \ {p}]
    BY <1>9 DEF EditBooking
  <2>2. /\ pc'[q] = "seats" /\ job' = job /\ held'[q] = held[q] \cup {PersonKey(p)}
        /\ todo'[q] = todo[q] \ {p} /\ todo[q] \subseteq Persons
    BY <1>0, <2>1 DEF TypeOK, Took
  <2>3. Passed(q) \subseteq Passed(q)' /\ PersonKey(p) \in Passed(q)'
    BY <2>1, <2>2, PersonsAssumption DEF Passed
  <2>4. held[q] \subseteq VenueKeys \cup SeatKeys \cup Passed(q)
    BY <1>0, <2>1 DEF Climbs, SeatLanes
  <2> QED BY <2>1, <2>2, <2>3, <2>4 DEF Climbs
<1>10. CASE EditJudge(q) /\ ~Finished(q)
  <2>1. /\ pc[q] = "seats" /\ job[q].lane = "edit" /\ pc'[q] = "judged"
        /\ job' = job /\ held'[q] = held[q]
    BY <1>0, <1>10 DEF TypeOK, EditJudge, Took, Refused
  <2> QED BY <1>0, <2>1 DEF Climbs, Passed, PersonKeys, SeatLanes
<1>11. CASE WriteCreate(q) \/ WriteRestaff(q) \/ WriteSwap(q) \/ EditWrite(q) \/ BlockWrite(q)
  BY <1>3, <1>11 DEF WriteCreate, WriteRestaff, WriteSwap, EditWrite, BlockWrite
<1> QED BY <1>1, <1>3, <1>4, <1>5, <1>6, <1>7, <1>8, <1>9, <1>10, <1>11 DEF Proceed

\* ... and puts at most one more request under way.
LEMMA UnderWayStep ==
  ASSUME OrderInv, NEW q \in Reqs, Ask(q) \/ Proceed(q)
  PROVE  IsFiniteSet(UnderWay')
<1>1. ASSUME NEW o \in Reqs \ {q}
      PROVE  pc'[o] = pc[o]
  BY OthersQuiet DEF OrderInv, Quiet
<1>2. UnderWay' \subseteq UnderWay \cup {q}
  BY <1>1 DEF UnderWay
<1> QED BY <1>2, FS_AddElement, FS_Subset DEF OrderInv

\* The order of the locks is kept by every step.
LEMMA OrderStep == OrderInv /\ TypeInv /\ TypeOK' /\ [Next]_vars => OrderInv'
<1> SUFFICES ASSUME OrderInv, TypeInv, TypeOK', [Next]_vars PROVE OrderInv'
  OBVIOUS
<1>1. ASSUME NEW q \in Reqs, Ask(q) \/ Proceed(q)
      PROVE  OrderInv'
  <2>1. ASSUME NEW o \in Reqs
        PROVE  Climbs(o)'
    <3>1. CASE o = q
      BY <1>1, <3>1, ClimbsStep
    <3>2. CASE o # q
      <4>1. Quiet(o)
        BY <1>1, <3>2, OthersQuiet DEF OrderInv
      <4> QED BY <4>1 DEF OrderInv, Quiet, Climbs, Passed
    <3> QED BY <3>1, <3>2
  <2> QED BY <1>1, <2>1, UnderWayStep DEF OrderInv
<1>2. CASE Statement \/ UNCHANGED vars
  <2>1. UNCHANGED <<pc, job, held, todo>>
    BY <1>2 DEF Statement, RaiseSwap, CloseSwap, StandDown, Finish, Remove, Withdraw, Unblock,
                requests, vars
  <2> QED BY <2>1 DEF OrderInv, Climbs, Passed, UnderWay
<1> QED BY <1>1, <1>2 DEF Next

\* "No cycle, no deadlock" (shift-write-guard.ts), for any number of requests,
\* shifts and PRs and with no further hypothesis: venue, shift, PRs in their
\* order and rows last is an order no set of requests can wait in a circle on.
THEOREM NobodyWaitsInACircle == Spec => []NoStandoff
<1>1. Init => OrderInv /\ TypeInv
  <2>1. ASSUME Init
        PROVE  UnderWay = {} /\ \A q \in Reqs : Climbs(q)
    BY <2>1 DEF Init, UnderWay, Climbs
  <2> QED BY <2>1, InitTypes, FS_EmptySet DEF OrderInv, TypeInv
<1>2. TypeInv /\ [Next]_vars => TypeInv'
  BY TypeStep
<1>3. TypeInv' => TypeOK'
  BY DEF TypeInv
<1>4. OrderInv /\ TypeInv /\ TypeOK' /\ [Next]_vars => OrderInv'
  BY OrderStep
<1>5. OrderInv => NoStandoff
  BY FurthestIsFree DEF NoStandoff
<1> QED BY <1>1, <1>2, <1>3, <1>4, <1>5, PTL DEF Spec
====
