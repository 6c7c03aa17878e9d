---- MODULE SeatingInv ----
(***************************************************************************)
(* Why no PR is double-booked and why no requests wait on each other: the  *)
(* facts that hold between any two steps of `Seating', strong enough to be *)
(* preserved by each of them. They are checked by TLC on the small         *)
(* instances and proved in `SeatingProofs'.                                *)
(***************************************************************************)
EXTENDS Seating

\* The two hypotheses under which the lanes keep a PR in one place. Each run
\* that drops one of them finds a PR in two.
Guarded == WholeRetimes /\ ~({"restaff", "swap"} \subseteq Lanes)

\* A lock has one holder.
LocksApart == \A q, o \in Reqs : q # o => held[q] \cap held[o] = {}

\* Where a request is says what it is doing and what it holds.
SeatStage(q) ==
    /\ pc[q] \in {"checked", "seats", "judged", "counted"}
    /\ pc[q] # "checked" => SeatKey(job[q].shift) \in held[q]
    /\ pc[q] \in {"judged", "counted"} => PersonKey(job[q].person) \in held[q]
    /\ pc[q] = "counted" => RowLocks(job[q]) \subseteq held[q]

EditStage(q) ==
    LET j == job[q] IN
    /\ pc[q] \in {"checked", "venue", "seats", "judged"}
    /\ j.timing \/ pc[q] \in {"checked", "judged"}
    /\ j.timing /\ pc[q] \in {"seats", "judged"} => SeatKey(j.shift) \in held[q]
    /\ IF j.timing
         THEN j.body.day = j.target.day /\ j.body.slot = j.target.slot
         ELSE j.body.day = None /\ j.body.slot = None

Stage(q) ==
    IF pc[q] = "idle"
      THEN job[q] = NoJob
      ELSE /\ job[q].lane \in Lanes
           /\ \/ job[q] \in SeatJob /\ SeatStage(q)
              \/ job[q] \in EditJob /\ EditStage(q)
              \/ job[q] \in BlockJob /\ pc[q] = "checked"

\* A row the table holds is filled in, and is the only one of its PR there.
RowsFilled ==
    \A r \in RowIds :
        Exists(r) => row[r].shift \in Shifts /\ row[r].person \in Persons
                     /\ row[r].agency \in Agencies
RowsUnique ==
    \A r, o \in RowIds :
        /\ Exists(r) /\ Exists(o)
        /\ row[r].person = row[o].person /\ row[r].shift = row[o].shift
        => r = o

\* A pending swap names a row, and a row has one pending swap.
SwapsNamed ==
    /\ \A w \in SwapIds :
          Pending(w) => swap[w].row \in RowIds /\ Exists(swap[w].row)
                        /\ swap[w].to \in Shifts
    /\ \A w, x \in SwapIds :
          Pending(w) /\ Pending(x) /\ swap[w].row = swap[x].row => w = x
    /\ "swap" \notin Lanes => \A w \in SwapIds : ~Pending(w)

\* What a request read of its row before its locks is still so.
Unmoved(j) ==
    /\ row[j.row].shift = (IF j.lane = "swap" THEN j.vacating ELSE j.shift)
    /\ row[j.row].person = j.person /\ row[j.row].agency = j.agency

Current(q) ==
    LET j == job[q] IN
    /\ j.lane = "restaff" =>
          row[j.row].status = "gone" \/ (Exists(j.row) /\ Unmoved(j))
    /\ j.lane = "swap" =>
          /\ swap[j.request].status # "unborn"
          /\ Pending(j.request) =>
                swap[j.request].row = j.row /\ swap[j.request].to = j.shift /\ Unmoved(j)
          /\ pc[q] = "counted" => Pending(j.request)

\* A judgement made under the locks stands until the commit.
Cleared(q) ==
    LET j == job[q] IN
    /\ job[q] \in SeatJob =>
          /\ pc[q] \in {"judged", "counted"} /\ j.shift \in posted
                => ~Clashes(j.person, j.shift, j.vacating)
          /\ pc[q] = "counted" =>
                /\ j.shift \in posted
                /\ HasSeat(j.shift, BucketOf(j.agency, j.person))
                /\ j.lane = "swap" =>
                      /\ status[j.shift] = "open"
                      /\ IsStaffing(j.row) => time[row[j.row].shift].day = time[j.shift].day
    /\ job[q] \in EditJob /\ j.timing =>
          /\ pc[q] = "seats" =>
                \A p \in LiveOn(j.shift) : p \in todo[q] \/ PersonKey(p) \in held[q]
          /\ pc[q] = "judged" =>
                /\ \A p \in LiveOn(j.shift) : PersonKey(p) \in held[q]
                /\ ~DoubleBooks(j.shift, j.target)

IInv ==
    /\ TypeOK
    /\ LocksApart
    /\ \A q \in Reqs : Stage(q)
    /\ RowsFilled
    /\ RowsUnique
    /\ SwapsNamed
    /\ \A q \in Reqs : Current(q)
    /\ \A q \in Reqs : Cleared(q)
    /\ NoDoubleBooking

(***************************************************************************)
(* Why no set of requests waits on itself                                  *)
(***************************************************************************)

VenueKeys == {VenueKey(v) : v \in Venues}
SeatKeys == {SeatKey(s) : s \in Shifts}
PersonKeys == {PersonKey(p) : p \in Persons}

\* The booking locks of the PRs an edit has already come past.
Passed(q) == {PersonKey(p) : p \in {p \in Persons : \A o \in todo[q] : p < o}}

\* A request holds only locks that come before the ones it goes on to want:
\* venue, shift, PRs in their order, and rows last.
Climbs(q) ==
    /\ pc[q] \in {"idle", "checked"} => held[q] = {}
    /\ pc[q] = "venue" => job[q].lane = "edit" /\ held[q] \subseteq VenueKeys
    /\ pc[q] = "seats" =>
          \/ job[q].lane \in SeatLanes /\ held[q] \subseteq SeatKeys
          \/ job[q].lane = "edit" /\ held[q] \subseteq VenueKeys \cup SeatKeys \cup Passed(q)
    /\ pc[q] = "judged" =>
          /\ job[q].lane \in SeatLanes \cup {"edit"}
          /\ held[q] \subseteq VenueKeys \cup SeatKeys \cup PersonKeys
    /\ pc[q] = "counted" => job[q].lane \in SeatLanes

\* At any instant only finitely many requests are under way.
UnderWay == {q \in Reqs : pc[q] # "idle"}

OrderInv == TypeOK /\ IsFiniteSet(UnderWay) /\ \A q \in Reqs : Climbs(q)
====
