---- MODULE BillingProofs ----
(***************************************************************************)
(* The invariants of `Billing', for any number of requests, rows, plans    *)
(* and days. Whatever overlaps: an organisation always has a live plan,    *)
(* and a second one only if somebody opened it by hand; the tables keep    *)
(* their types; what credits gave is what bills took. While requests do    *)
(* not overlap (Calm): a period is charged once, credits stand on bills,   *)
(* a settled figure stands, and the differences of switches add up.        *)
(***************************************************************************)
EXTENDS BillingInv, SumLemmas

USE ActorsAssumption, BoundsAssumption

\* A request is a record of its five fields.
Shaped(r) == r = [at |-> r.at, seen |-> r.seen, fresh |-> r.fresh, line |-> r.line, todo |-> r.todo]

\* A plan row is a record of its five fields.
ShapedRow(p) == p = [price |-> p.price, start |-> p.start, end |-> p.end, anchor |-> p.anchor, live |-> p.live]

\* Every request is one.
LEMMA Formed ==
    ASSUME NEW stage, NEW seen, NEW fresh, NEW line, NEW todo, NEW r,
           r = Request(stage, seen, fresh, line, todo)
    PROVE  Shaped(r) /\ r.at = stage /\ r.seen = seen
BY DEF Shaped, Request

LEMMA Blank == Shaped(NoRequest) /\ NoRequest.at # "holding"
BY Formed DEF NoRequest

\* The rows are finitely many, so any set of live rows has a size.
LEMMA LiveFinite == IsFiniteSet(Live) /\ IsFiniteSet(Live') /\ Cardinality(Live) \in Nat
<1>1. IsFiniteSet(Rows)
  BY FS_Interval DEF Rows
<1>2. Live \subseteq Rows /\ Live' \subseteq Rows
  BY DEF Live
<1>3. QED
  BY <1>1, <1>2, FS_Subset, FS_CardinalityType

\* The types of the lane survive a step that keeps its shapes.
LEMMA TypesKept ==
    ASSUME LaneTypes, NEW a \in Actors, NEW r, Shaped(r), Becomes(a, r),
           made' \in Rows, opened' \in Nat, day' \in Days,
           DOMAIN plan' = Rows, \A x \in Rows : ShapedRow(plan'[x])
    PROVE  LaneTypes'
BY DEF LaneTypes, Shaped, ShapedRow, Becomes

\* The lane does not notice a request that holds no rows afterwards, changes no row's
\* life, and gives the lock back only if it was its own.
LEMMA Aside ==
    ASSUME IInv, NEW a \in Actors, NEW r, Shaped(r), r.at # "holding", Becomes(a, r),
           UNCHANGED <<made, opened>>, day' \in Days,
           DOMAIN plan' = Rows, \A x \in Rows : ShapedRow(plan'[x]),
           \A x \in Rows : plan'[x].live = plan[x].live /\ plan'[x].end = plan[x].end,
           lane' = lane \/ (lane = a /\ lane' = Nobody)
    PROVE  IInv'
<1>1. LaneTypes'
  BY TypesKept DEF IInv, LaneTypes
<1>2. Live' = Live
  BY DEF Live
<1>3. req'[a] = r /\ \A b \in Actors \ {a} : req'[b] = req[b]
  BY DEF IInv, LaneTypes, Becomes
<1>4. LaneHeld'
  <2>1. \A b \in Actors : At(b, "holding")' => b \in Admins /\ lane' = b
    BY <1>3 DEF IInv, LaneHeld, At
  <2>2. \A q \in Admins : At(q, "holding")' =>
           /\ req'[q].seen \subseteq Live'
           /\ Cardinality(Live' \ req'[q].seen) <= opened'
    BY <1>2, <1>3 DEF IInv, LaneHeld, At, Actors
  <2>3. \A x \in Rows : x > made' => ~plan'[x].live
    BY DEF IInv, LaneHeld
  <2>4. QED
    BY <2>1, <2>2, <2>3 DEF LaneHeld
<1>5. QED
  BY <1>1, <1>2, <1>4 DEF IInv, NeverPlanless, OneLivePlan

\* Nor one in which no request moves.
LEMMA Outside ==
    ASSUME IInv, UNCHANGED <<made, plan, lane, req, opened>>, day' \in Days
    PROVE  IInv'
<1>1. Live' = Live
  BY DEF Live
<1>2. LaneTypes'
  BY DEF IInv, LaneTypes
<1>3. LaneHeld'
  BY <1>1 DEF IInv, LaneHeld, At
<1>4. QED
  BY <1>1, <1>2, <1>3 DEF IInv, NeverPlanless, OneLivePlan

\* Only the holder of the lane is holding.
LEMMA Alone ==
    ASSUME IInv, NEW q \in Admins, At(q, "holding"), NEW b \in Actors, b # q
    PROVE  ~At(b, "holding")
BY DEF IInv, LaneHeld, Actors

LEMMA TakeLaneStep ==
    ASSUME IInv, NEW q \in Admins, TakeLane(q)
    PROVE  IInv'
<1> DEFINE r == Request("holding", Live, 0, {}, {})
<1>1. q \in Actors /\ Shaped(r) /\ r.at = "holding" /\ r.seen = Live
  BY Formed DEF Actors
<1>2. Live' = Live /\ UNCHANGED <<made, plan, opened, day>> /\ lane = Nobody /\ lane' = q
  BY DEF TakeLane, Live, ledger, rest
<1>3. Becomes(q, r)
  BY DEF TakeLane
<1>4. LaneTypes'
  BY <1>1, <1>2, <1>3, TypesKept DEF IInv, LaneTypes, ShapedRow
<1>5. req'[q] = r /\ \A b \in Actors \ {q} : req'[b] = req[b]
  BY <1>1, <1>3 DEF IInv, LaneTypes, Becomes
<1>6. \A b \in Actors \ {q} : ~At(b, "holding")'
  BY <1>2, <1>5 DEF IInv, LaneHeld, At
<1>7. Cardinality(Live \ Live) <= opened
  BY FS_EmptySet DEF IInv, LaneTypes
<1>8. LaneHeld'
  <2>1. \A b \in Actors : At(b, "holding")' => b \in Admins /\ lane' = b
    BY <1>2, <1>6
  <2>2. \A p \in Admins : At(p, "holding")' =>
           /\ req'[p].seen \subseteq Live'
           /\ Cardinality(Live' \ req'[p].seen) <= opened'
    BY <1>1, <1>2, <1>5, <1>6, <1>7 DEF Actors
  <2>3. QED
    BY <1>2, <2>1, <2>2 DEF LaneHeld, IInv
<1>9. QED
  BY <1>2, <1>4, <1>8 DEF IInv, NeverPlanless, OneLivePlan

\* The switch closes what it read, and what is live beside its new row was opened by hand.
LEMMA SwitchStep ==
    ASSUME IInv, NEW q \in Admins, NEW price \in Prices, Switch(q, price)
    PROVE  IInv'
<1> DEFINE new == made + 1
<1> DEFINE r == IF req[q].seen = {} THEN NoRequest
                ELSE Request("pricing", req[q].seen, made + 1, {}, {})
<1>1. /\ q \in Actors /\ At(q, "holding") /\ made < MaxRows /\ made' = new /\ lane' = Nobody
      /\ UNCHANGED <<day, opened>> /\ Becomes(q, r)
  BY DEF Switch, Actors, rest
<1>2. /\ made \in Rows /\ new \in Rows /\ opened \in Nat /\ day \in Days
      /\ Never \notin Days
  BY <1>1 DEF IInv, LaneTypes, Rows, Days, Never
<1>fresh. plan'[new] = Opening(price, day, Inherited(req[q].seen))
  BY <1>2 DEF Switch
<1>3. /\ DOMAIN plan' = Rows
      /\ \A x \in Rows \ {new} : plan'[x] =
            IF x \in req[q].seen THEN [plan[x] EXCEPT !.end = day, !.live = FALSE] ELSE plan[x]
  BY <1>2 DEF Switch
<1>4. \A x \in Rows : ShapedRow(plan[x])
  BY DEF IInv, LaneTypes, ShapedRow
<1>5. \A x \in Rows : ShapedRow(plan'[x])
  BY <1>fresh, <1>3, <1>4 DEF ShapedRow, Opening
<1>6. Shaped(r) /\ r.at # "holding"
  <2>2. Shaped(Request("pricing", req[q].seen, made + 1, {}, {}))
        /\ Request("pricing", req[q].seen, made + 1, {}, {}).at = "pricing"
    BY Formed
  <2>3. QED
    BY <2>2, Blank
<1>7. LaneTypes'
  BY <1>1, <1>2, <1>3, <1>5, <1>6, TypesKept DEF IInv
<1>8. req[q].seen \subseteq Live /\ new \notin Live /\ Cardinality(Live \ req[q].seen) <= opened
  BY <1>1, <1>2 DEF IInv, LaneHeld, Live, Rows
<1>9. Live' = (Live \ req[q].seen) \cup {new}
  <2>1. new \in Live'
    <3>1. plan'[new].live /\ plan'[new].end = Never
      BY <1>fresh DEF Opening
    <3>2. QED
      BY <1>2, <3>1 DEF Live
  <2>2. ASSUME NEW x \in Rows \ {new}
        PROVE  x \in Live' <=> x \in Live \ req[q].seen
    <3>1. CASE x \in req[q].seen
      BY <1>3, <1>4, <3>1 DEF Live, ShapedRow
    <3>2. CASE x \notin req[q].seen
      BY <1>3, <3>2 DEF Live
    <3>3. QED
      BY <3>1, <3>2
  <2>3. Live' \subseteq Rows /\ Live \subseteq Rows
    BY DEF Live
  <2>4. QED
    BY <1>8, <2>1, <2>2, <2>3
<1>10. Cardinality(Live') <= 1 + opened
  <2>1. IsFiniteSet(Live \ req[q].seen) /\ Cardinality(Live \ req[q].seen) \in Nat
    BY LiveFinite, FS_Subset, FS_CardinalityType
  <2>2. Cardinality(Live') = Cardinality(Live \ req[q].seen) + 1
    BY <1>8, <1>9, <2>1, FS_AddElement
  <2>3. QED
    BY <1>2, <1>8, <2>1, <2>2
<1>11. \A b \in Actors : ~At(b, "holding")'
  BY <1>1, <1>6, Alone DEF IInv, LaneTypes, Becomes, At
<1>12. LaneHeld'
  <2>1. ASSUME NEW x \in Rows, x > made'
        PROVE  ~plan'[x].live
    <3>1. x # new /\ x > made
      BY <1>1, <1>2, <2>1 DEF Rows
    <3>2. ~plan[x].live
      BY <3>1 DEF IInv, LaneHeld
    <3>3. QED
      BY <1>3, <1>4, <3>1, <3>2 DEF ShapedRow
  <2>2. QED
    BY <1>11, <2>1 DEF LaneHeld, Actors
<1>13. QED
  BY <1>1, <1>7, <1>9, <1>10, <1>12 DEF IInv, NeverPlanless, OneLivePlan

\* A close leaves one of the rows it read, which nobody else can have closed meanwhile.
LEMMA CloseStep ==
    ASSUME IInv, NEW q \in Admins, NEW row \in Rows, NEW door \in Doors, Close(q, row, door)
    PROVE  IInv'
<1>1. /\ q \in Actors /\ At(q, "holding") /\ MayClose(q, row, door) /\ lane' = Nobody
      /\ UNCHANGED <<made, day, opened>> /\ Becomes(q, NoRequest)
  BY DEF Close, Actors, rest, Done
<1>2. made \in Rows /\ opened \in Nat /\ day \in Days /\ Never \notin Days
  BY DEF IInv, LaneTypes, Days, Never
<1>3. \A x \in Rows : ShapedRow(plan[x])
  BY DEF IInv, LaneTypes, ShapedRow
<1>4. /\ DOMAIN plan' = Rows
      /\ \A x \in Rows \ {row} : plan'[x] = plan[x]
      /\ plan'[row] = Shut(plan[row], door)
  BY DEF Close, IInv, LaneTypes
<1>shut. /\ ShapedRow(plan'[row])
         /\ door # "status" => plan'[row].end = day
         /\ door # "date" => ~plan'[row].live
  BY <1>3, <1>4 DEF ShapedRow, Shut
<1>5. \A x \in Rows : ShapedRow(plan'[x])
  BY <1>3, <1>4, <1>shut
<1>6. Shaped(NoRequest) /\ NoRequest.at # "holding"
  BY Blank
<1>7. LaneTypes'
  BY <1>1, <1>2, <1>4, <1>5, <1>6, TypesKept DEF IInv
<1>8. row \notin Live'
  BY <1>2, <1>shut DEF Live, Doors
<1>9. Live' = Live \ {row}
  <2>1. ASSUME NEW x \in Rows \ {row}
        PROVE  x \in Live' <=> x \in Live
    BY <1>4 DEF Live
  <2>2. Live' \subseteq Rows /\ Live \subseteq Rows
    BY DEF Live
  <2>3. QED
    BY <1>8, <2>1, <2>2
<1>10. Live' # {}
  <2>1. CASE row \in Live
    BY <1>1, <1>9, <2>1 DEF MayClose, IInv, LaneHeld
  <2>2. CASE row \notin Live
    BY <1>9, <2>2 DEF IInv, NeverPlanless
  <2>3. QED
    BY <2>1, <2>2
<1>11. Cardinality(Live') <= 1 + opened
  <2>1. Cardinality(Live') \in Nat /\ Cardinality(Live') <= Cardinality(Live)
    BY <1>9, LiveFinite, FS_Subset, FS_CardinalityType
  <2>2. QED
    BY <1>2, <2>1, LiveFinite DEF IInv, OneLivePlan
<1>12. \A b \in Actors : ~At(b, "holding")'
  BY <1>1, <1>6, Alone DEF IInv, LaneTypes, Becomes, At
<1>13. LaneHeld'
  <2>1. ASSUME NEW x \in Rows, x > made'
        PROVE  ~plan'[x].live
    <3>1. x # row
      BY <1>1, <1>2, <2>1 DEF MayClose, Rows
    <3>2. QED
      BY <1>1, <1>4, <2>1, <3>1 DEF IInv, LaneHeld
  <2>2. QED
    BY <1>12, <2>1 DEF LaneHeld, Actors
<1>14. QED
  BY <1>1, <1>7, <1>10, <1>11, <1>13 DEF IInv, NeverPlanless, OneLivePlan

\* A row opened by hand is one more live row, counted in opened.
LEMMA OpenedByHand ==
    ASSUME IInv, NEW row \in Rows, row \notin Live, Live' = Live \cup {row},
           opened' = opened + 1, UNCHANGED <<req, lane>>,
           made' \in Rows, day' \in Days, DOMAIN plan' = Rows, \A x \in Rows : ShapedRow(plan'[x]),
           \A x \in Rows : x > made' => ~plan'[x].live
    PROVE  IInv'
<1>1. opened \in Nat
  BY DEF IInv, LaneTypes
<1>2. LaneTypes'
  BY <1>1 DEF IInv, LaneTypes, ShapedRow
<1>3. ASSUME NEW s \in SUBSET Live
      PROVE  Cardinality(Live' \ s) = Cardinality(Live \ s) + 1 /\ Cardinality(Live \ s) \in Nat
  <2>1. IsFiniteSet(Live \ s)
    BY LiveFinite, FS_Subset
  <2>2. Live' \ s = (Live \ s) \cup {row} /\ row \notin Live \ s
    OBVIOUS
  <2>3. QED
    BY <2>1, <2>2, FS_AddElement, FS_CardinalityType
<1>4. Cardinality(Live') <= 1 + opened'
  <2>1. Live' \ {} = Live' /\ Live \ {} = Live
    OBVIOUS
  <2>2. Cardinality(Live') = Cardinality(Live) + 1 /\ Cardinality(Live) \in Nat
    BY <1>3, <2>1
  <2>3. QED
    BY <1>1, <2>2 DEF IInv, OneLivePlan
<1>5. LaneHeld'
  <2>1. \A b \in Actors : At(b, "holding")' => b \in Admins /\ lane' = b
    BY DEF IInv, LaneHeld, At
  <2>2. ASSUME NEW q \in Admins, At(q, "holding")'
        PROVE  /\ req'[q].seen \subseteq Live'
               /\ Cardinality(Live' \ req'[q].seen) <= opened'
    <3>1. req[q].seen \in SUBSET Live /\ Cardinality(Live \ req[q].seen) <= opened
      BY <2>2 DEF IInv, LaneHeld, At
    <3>2. Cardinality(Live' \ req[q].seen) = Cardinality(Live \ req[q].seen) + 1
          /\ Cardinality(Live \ req[q].seen) \in Nat
      BY <1>3, <3>1
    <3>3. QED
      BY <1>1, <3>1, <3>2
  <2>3. QED
    BY <2>1, <2>2 DEF LaneHeld
<1>6. QED
  BY <1>2, <1>4, <1>5 DEF IInv, NeverPlanless, OneLivePlan

LEMMA CreateStep ==
    ASSUME IInv, NEW price \in Prices, CreateRow(price)
    PROVE  IInv'
<1> DEFINE new == made + 1
<1>1. made \in Rows /\ new \in Rows /\ made' = new /\ opened' = opened + 1 /\ day \in Days
  BY DEF CreateRow, IInv, LaneTypes, Rows
<1>2. \A x \in Rows : ShapedRow(plan[x])
  BY DEF IInv, LaneTypes, ShapedRow
<1>3. /\ DOMAIN plan' = Rows /\ plan'[new] = Opening(price, day, day)
      /\ \A x \in Rows \ {new} : plan'[x] = plan[x]
  BY <1>1 DEF CreateRow, IInv, LaneTypes
<1>4. \A x \in Rows : ShapedRow(plan'[x])
  BY <1>2, <1>3 DEF ShapedRow, Opening
<1>5. new \notin Live
  BY <1>1 DEF IInv, LaneHeld, Live, Rows
<1>6. Live' = Live \cup {new}
  BY <1>1, <1>3 DEF Live, Opening
<1>7. \A x \in Rows : x > made' => ~plan'[x].live
  BY <1>1, <1>3 DEF IInv, LaneHeld, Rows
<1>8. QED
  BY <1>1, <1>3, <1>4, <1>5, <1>6, <1>7, OpenedByHand DEF CreateRow

LEMMA ReopenStep ==
    ASSUME IInv, NEW row \in Rows, Reopen(row)
    PROVE  IInv'
<1>1. row <= made /\ row \notin Live /\ opened' = opened + 1 /\ made' = made /\ made \in Rows
      /\ day \in Days
  BY DEF Reopen, IInv, LaneTypes
<1>2. \A x \in Rows : ShapedRow(plan[x])
  BY DEF IInv, LaneTypes, ShapedRow
<1>3. /\ DOMAIN plan' = Rows /\ plan'[row] = [plan[row] EXCEPT !.end = Never, !.live = TRUE]
      /\ \A x \in Rows \ {row} : plan'[x] = plan[x]
  BY DEF Reopen, IInv, LaneTypes
<1>4. \A x \in Rows : ShapedRow(plan'[x])
  BY <1>2, <1>3 DEF ShapedRow
<1>5. Live' = Live \cup {row}
  <2>1. plan'[row].live /\ plan'[row].end = Never
    BY <1>2, <1>3 DEF ShapedRow
  <2>2. QED
    BY <1>3, <2>1 DEF Live
<1>6. \A x \in Rows : x > made' => ~plan'[x].live
  BY <1>1, <1>3 DEF IInv, LaneHeld, Rows
<1>7. QED
  BY <1>1, <1>3, <1>4, <1>5, <1>6, OpenedByHand DEF Reopen

\* The other steps of a switch or a close.
LEMMA AdminStep ==
    ASSUME IInv, NEW q \in Admins, AdminOn(q)
    PROVE  IInv'
<1>1. q \in Actors /\ Shaped(req[q]) /\ DOMAIN plan = Rows /\ (\A x \in Rows : ShapedRow(plan[x]))
      /\ day \in Days
  BY DEF IInv, LaneTypes, Actors, Shaped, ShapedRow
<1>2. Shaped(NoRequest) /\ NoRequest.at # "holding"
  BY Blank
<1>3. CASE RollBack(q)
  <2>1. Becomes(q, NoRequest) /\ lane = q /\ lane' = Nobody /\ UNCHANGED <<made, plan, opened, day>>
    BY <1>1, <1>3 DEF RollBack, Done, ledger, rest, IInv, LaneHeld
  <2>2. QED
    BY <1>1, <1>2, <2>1, Aside
<1>4. CASE FindBill(q)
  <2>1. PICK r : Becomes(q, r) /\ Shaped(r) /\ r.at # "holding"
    <3>1. CASE Done(q)
      BY <1>2, <3>1 DEF Done
    <3>2. CASE \E k \in Running : Becomes(q, Request("adjusting", req[q].seen, req[q].fresh, {k}, {}))
      <4>1. PICK k \in Running : Becomes(q, Request("adjusting", req[q].seen, req[q].fresh, {k}, {}))
        BY <3>2
      <4>2. Shaped(Request("adjusting", req[q].seen, req[q].fresh, {k}, {}))
            /\ Request("adjusting", req[q].seen, req[q].fresh, {k}, {}).at # "holding"
        BY Formed
      <4>3. QED
        BY <4>1, <4>2
    <3>3. QED
      BY <1>4, <3>1, <3>2 DEF FindBill
  <2>2. UNCHANGED <<made, plan, lane, opened, day>>
    BY <1>4 DEF FindBill, ledger, rest
  <2>3. QED
    BY <1>1, <2>1, <2>2, Aside
<1>5. CASE Adjust(q)
  <2>1. Becomes(q, NoRequest) /\ UNCHANGED <<made, plan, lane, opened, day>>
    BY <1>5 DEF Adjust, Done, ledger, rest
  <2>2. QED
    BY <1>1, <1>2, <2>1, Aside
<1>6. QED
  BY <1>3, <1>4, <1>5 DEF AdminOn

\* A run or an approval moves to a stage that holds nothing.
LEMMA ProceedShape ==
    ASSUME NEW g, NEW stage, stage # "holding", NEW charges, Proceed(g, stage, charges)
    PROVE  \E r : Shaped(r) /\ r.at # "holding" /\ Becomes(g, r)
<1>1. Shaped(NoRequest) /\ NoRequest.at # "holding"
  BY Blank
<1>2. CASE charges = {}
  BY <1>1, <1>2 DEF Proceed, Done
<1>3. CASE charges # {}
  <2> DEFINE r == Request(stage, {}, 0, {}, charges)
  <2>1. Shaped(r) /\ r.at # "holding"
    BY Formed
  <2>2. Becomes(g, r)
    BY <1>3 DEF Proceed
  <2>3. QED
    BY <2>1, <2>2
<1>4. QED
  BY <1>2, <1>3

LEMMA RunStep ==
    ASSUME IInv, NEW g \in Runs, Approve(g) \/ ReadPlans(g) \/ RunOn(g)
    PROVE  IInv'
<1>1. g \in Actors /\ DOMAIN plan = Rows /\ (\A x \in Rows : ShapedRow(plan[x])) /\ day \in Days
  BY DEF IInv, LaneTypes, Actors, ShapedRow
<1>2. Shaped(NoRequest) /\ NoRequest.at # "holding"
  BY Blank
<1>3. CASE Approve(g)
  <2> DEFINE r == Request("stamping", Waiting, 0, {}, {})
  <2>1. Shaped(r) /\ r.at # "holding"
    BY Formed
  <2>2. Becomes(g, r) /\ UNCHANGED <<made, plan, lane, opened, day>>
    BY <1>3 DEF Approve, ledger
  <2>3. QED
    BY <1>1, <2>1, <2>2, Aside
<1>4. CASE Stamp(g)
  <2> DEFINE stamped == req[g].seen \cap Waiting
  <2> DEFINE r == Request("reading", stamped, 0, {}, {})
  <2>1. /\ DOMAIN plan' = Rows
        /\ \A x \in Rows : plan'[x] = IF x \in stamped THEN [plan[x] EXCEPT !.anchor = day] ELSE plan[x]
        /\ UNCHANGED <<made, lane, opened, day>>
        /\ IF stamped = {} THEN Done(g) ELSE Becomes(g, r)
    BY <1>4 DEF Stamp, rest
  <2>2. \A x \in Rows : /\ ShapedRow(plan'[x])
                        /\ plan'[x].live = plan[x].live /\ plan'[x].end = plan[x].end
    BY <1>1, <2>1 DEF ShapedRow
  <2>3. Shaped(r) /\ r.at # "holding"
    BY Formed
  <2>4. PICK n : Shaped(n) /\ n.at # "holding" /\ Becomes(g, n)
    BY <1>2, <2>1, <2>3 DEF Done
  <2>5. QED
    BY <1>1, <2>1, <2>2, <2>4, Aside
<1>5. CASE ReadPlans(g)
  <2>1. PICK n : Shaped(n) /\ n.at # "holding" /\ Becomes(g, n)
    BY <1>5, ProceedShape DEF ReadPlans
  <2>2. QED
    BY <1>1, <1>5, <2>1, Aside DEF ReadPlans, ledger, rest
<1>6. CASE ReadBills(g)
  <2>1. PICK n : Shaped(n) /\ n.at # "holding" /\ Becomes(g, n)
    BY <1>6, ProceedShape DEF ReadBills
  <2>2. QED
    BY <1>1, <1>6, <2>1, Aside DEF ReadBills, ledger, rest
<1>7. CASE Mint(g)
  <2>1. PICK n : Shaped(n) /\ n.at # "holding" /\ Becomes(g, n)
    BY <1>7, ProceedShape DEF Mint
  <2>2. QED
    BY <1>1, <1>7, <2>1, Aside DEF Mint, ledger, rest
<1>8. CASE \E c \in req[g].todo : SpendCredits(g, c)
  <2>1. PICK c \in req[g].todo : SpendCredits(g, c)
    BY <1>8
  <2>2. PICK n : Shaped(n) /\ n.at # "holding" /\ Becomes(g, n)
    BY <2>1, ProceedShape DEF SpendCredits
  <2>3. QED
    BY <1>1, <2>1, <2>2, Aside DEF SpendCredits, ledger, rest
<1>9. QED
  BY <1>3, <1>4, <1>5, <1>6, <1>7, <1>8 DEF RunOn

LEMMA DieStep ==
    ASSUME IInv, NEW a \in Actors, Die(a)
    PROVE  IInv'
<1>1. Shaped(NoRequest) /\ NoRequest.at # "holding"
  BY Blank
<1>2. DOMAIN plan = Rows /\ (\A x \in Rows : ShapedRow(plan[x])) /\ day \in Days
  BY DEF IInv, LaneTypes, ShapedRow
<1>3. Becomes(a, NoRequest) /\ UNCHANGED <<made, plan, opened, day>>
      /\ (lane' = lane \/ (lane = a /\ lane' = Nobody))
  BY DEF Die, Done, ledger, rest
<1>4. QED
  BY <1>1, <1>2, <1>3, Aside

\* The organisation registers with one live plan.
LEMMA Start == Init => IInv
<1> SUFFICES ASSUME Init PROVE IInv
  OBVIOUS
<1>1. PICK price \in Prices :
        plan = [r \in Rows |-> IF r = 1 THEN Opening(price, 0, Never) ELSE NoPlan]
  BY DEF Init
<1>2. 1 \in Rows /\ made = 1 /\ opened = 0 /\ day = 0 /\ 0 \in Days /\ req = [a \in Actors |-> NoRequest]
  BY DEF Init, Rows, Days
<1>3. LaneTypes
  BY <1>1, <1>2 DEF LaneTypes, Opening, NoPlan, NoRequest, Request
<1>4. Live = {1}
  BY <1>1, <1>2 DEF Live, Opening, NoPlan
<1>5. LaneHeld
  BY <1>1, <1>2 DEF LaneHeld, At, NoRequest, Request, NoPlan, Rows, Actors
<1>6. Cardinality(Live) = 1
  BY <1>4, FS_Singleton
<1>7. QED
  BY <1>2, <1>3, <1>4, <1>5, <1>6 DEF IInv, NeverPlanless, OneLivePlan

LEMMA Step == IInv /\ [Next]_vars => IInv'
<1> SUFFICES ASSUME IInv, [Next]_vars PROVE IInv'
  OBVIOUS
<1>1. CASE UNCHANGED vars
  BY <1>1, Outside DEF vars, IInv, LaneTypes
<1>2. ASSUME NEW q \in Admins, Lane(q)
      PROVE  IInv'
  BY <1>2, TakeLaneStep, AdminStep, SwitchStep, CloseStep DEF Lane
<1>3. ASSUME NEW a \in Actors, Die(a)
      PROVE  IInv'
  BY <1>3, DieStep
<1>4. ASSUME NEW g \in Runs, Approve(g) \/ ReadPlans(g) \/ RunOn(g)
      PROVE  IInv'
  BY <1>4, RunStep
<1>5. CASE Elsewhere
  <2>1. CASE NextDay
    <3>1. day' \in Days /\ UNCHANGED <<made, plan, lane, req, opened>>
      BY <2>1 DEF NextDay, ledger, IInv, LaneTypes, Days
    <3>2. QED
      BY <3>1, Outside
  <2>2. CASE \E k \in Keys : Pay(k) \/ VoidBill(k)
    <3>1. day' \in Days /\ UNCHANGED <<made, plan, lane, req, opened>>
      BY <2>2 DEF Pay, VoidBill, ledger, rest, IInv, LaneTypes
    <3>2. QED
      BY <3>1, Outside
  <2>3. CASE \E price \in Prices : CreateRow(price)
    BY <2>3, CreateStep
  <2>4. CASE \E r \in Rows : Reopen(r)
    BY <2>4, ReopenStep
  <2>5. QED
    BY <1>5, <2>1, <2>2, <2>3, <2>4 DEF Elsewhere
<1>6. QED
  BY <1>1, <1>2, <1>3, <1>4, <1>5 DEF Next, Actors

\* The lane's invariant holds of every behaviour, overlapping requests included.
THEOREM LaneInvariance == Spec => []IInv
BY Start, Step, PTL DEF Spec

\* However many switches, cancels and closing edits run at once, the organisation is
\* never left without a live plan (closeUnlessLastPlan, applyPlanChangeToLedger).
THEOREM AlwaysAPlan == Spec => []NeverPlanless
<1>1. IInv => NeverPlanless
  BY DEF IInv
<1>2. QED
  BY <1>1, LaneInvariance, PTL

\* No switch leaves a second live plan behind: each one beyond the first was opened by
\* hand, through a door that takes no lock.
THEOREM NoSecondPlan == Spec => []OneLivePlan
<1>1. IInv => OneLivePlan
  BY DEF IInv
<1>2. QED
  BY <1>1, LaneInvariance, PTL

(***************************************************************************)
(* Numbers the lane works out                                              *)
(***************************************************************************)

LEMMA PricesAreNat == \A x \in Prices \cup {0} : x \in Nat
OBVIOUS

LEMMA RowsFinite == IsFiniteSet(Rows)
BY FS_Interval DEF Rows

\* A largest element is the one Max names, and a least one the one Min names.
LEMMA MaxIs ==
    ASSUME NEW S, S \subseteq Int, NEW x \in S, \A y \in S : x >= y
    PROVE  Max(S) = x
<1>1. Max(S) \in S /\ \A y \in S : Max(S) >= y
  BY Zenon DEF Max
<1>2. Max(S) >= x /\ x >= Max(S) /\ x \in Int /\ Max(S) \in Int
  BY <1>1
<1> QED BY <1>2

LEMMA MinIs ==
    ASSUME NEW S, S \subseteq Int, NEW x \in S, \A y \in S : x =< y
    PROVE  Min(S) = x
<1>1. Min(S) \in S /\ \A y \in S : Min(S) =< y
  BY Zenon DEF Min
<1>2. Min(S) =< x /\ x =< Min(S) /\ x \in Int /\ Min(S) \in Int
  BY <1>1
<1> QED BY <1>2

\* Some row of a set of rows has the most of whatever is an integer of each of them...
LEMMA MaxTaken ==
    ASSUME NEW rows \in SUBSET Rows, rows # {}, NEW f \in [rows -> Int]
    PROVE  \E x \in rows : Max({f[r] : r \in rows}) = f[x] /\ \A r \in rows : f[x] >= f[r]
<1>1. IsFiniteSet(rows)
  BY RowsFinite, FS_Subset
<1>2. PICK x \in rows : \A r \in rows : f[x] >= f[r]
  BY <1>1, HasTop
<1>3. Max({f[r] : r \in rows}) = f[x]
  <2> DEFINE T == {f[r] : r \in rows}
  <2>1. T \subseteq Int /\ f[x] \in T /\ \A y \in T : f[x] >= y
    BY <1>2
  <2> HIDE DEF T
  <2>2. Max(T) = f[x]
    BY <2>1, MaxIs
  <2> QED BY <2>2 DEF T
<1> QED BY <1>2, <1>3

\* ... and some row the least.
LEMMA MinTaken ==
    ASSUME NEW rows \in SUBSET Rows, rows # {}, NEW f \in [rows -> Int]
    PROVE  \E x \in rows : Min({f[r] : r \in rows}) = f[x] /\ \A r \in rows : f[x] =< f[r]
<1>1. IsFiniteSet(rows)
  BY RowsFinite, FS_Subset
<1> DEFINE g == [r \in rows |-> -f[r]]
<1>2. g \in [rows -> Int]
  OBVIOUS
<1>3. PICK x \in rows : \A r \in rows : g[x] >= g[r]
  <2> HIDE DEF g
  <2> QED BY <1>1, <1>2, HasTop
<1>4. \A r \in rows : f[x] =< f[r]
  BY <1>3
<1>5. Min({f[r] : r \in rows}) = f[x]
  <2> DEFINE T == {f[r] : r \in rows}
  <2>1. T \subseteq Int /\ f[x] \in T /\ \A y \in T : f[x] =< y
    BY <1>4
  <2> HIDE DEF T
  <2>2. Min(T) = f[x]
    BY <2>1, MinIs
  <2> QED BY <2>2 DEF T
<1> QED BY <1>4, <1>5

\* The days of a period.
LEMMA PeriodDaysOf ==
    ASSUME NEW d \in Nat
    PROVE  /\ PeriodOf(d) \in Nat
           /\ First(PeriodOf(d)) <= d /\ d <= Last(PeriodOf(d))
<1>1. /\ d \div PeriodDays \in Nat /\ PeriodDays * (d \div PeriodDays) <= d
      /\ d < PeriodDays * (d \div PeriodDays) + PeriodDays
  OBVIOUS
<1> QED BY <1>1 DEF PeriodOf, First, Last

LEMMA PeriodsApart ==
    ASSUME NEW p \in Nat, NEW q \in Nat
    PROVE  /\ First(p) \in Nat /\ Last(p) \in Nat /\ First(p) <= Last(p)
           /\ p < q => Last(p) < First(q)
           /\ p <= q => First(p) <= First(q) /\ Last(p) <= Last(q)
<1>1. p * PeriodDays \in Nat /\ q * PeriodDays \in Nat
  OBVIOUS
<1>2. p < q => p * PeriodDays + PeriodDays <= q * PeriodDays
  OBVIOUS
<1>3. p <= q => p * PeriodDays <= q * PeriodDays
  OBVIOUS
<1> QED BY <1>1, <1>2, <1>3 DEF First, Last

\* A later day is in the same period or a later one.
LEMMA PeriodsInOrder ==
    ASSUME NEW d \in Nat, NEW e \in Nat, d <= e
    PROVE  PeriodOf(d) <= PeriodOf(e)
<1>1. /\ PeriodOf(d) \in Nat /\ PeriodOf(e) \in Nat
      /\ First(PeriodOf(d)) <= d /\ e <= Last(PeriodOf(e))
  BY PeriodDaysOf
<1>2. First(PeriodOf(d)) \in Nat /\ Last(PeriodOf(e)) \in Nat
      /\ (PeriodOf(e) < PeriodOf(d) => Last(PeriodOf(e)) < First(PeriodOf(d)))
  BY <1>1, PeriodsApart
<1> QED BY <1>1, <1>2

LEMMA DayIsInAPeriod == day \in Days => PeriodOf(day) \in Periods
BY PeriodsInOrder, PeriodDaysOf DEF Days, Periods

\* The newest row of some is one of them.
LEMMA NewestOf ==
    ASSUME NEW rows \in SUBSET Rows, rows # {}
    PROVE  Max(rows) \in rows /\ \A r \in rows : Max(rows) >= r
<1>1. IsFiniteSet(rows) /\ rows \subseteq Int
  <2>1. Rows \subseteq Int
    BY DEF Rows
  <2> QED BY <2>1, RowsFinite, FS_Subset
<1>2. PICK x \in rows : \A r \in rows : x >= r
  BY <1>1, HasMax
<1> QED BY <1>1, <1>2, MaxIs

\* What an organisation paid is what one of its plans costs.
LEMMA DearestTaken ==
    ASSUME plan \in [Rows -> Plans], NEW rows \in SUBSET Rows, rows # {}
    PROVE  /\ Dearest(rows) \in Prices \cup {0} /\ Dearest(rows) \in Nat
           /\ \E x \in rows : Dearest(rows) = plan[x].price
           /\ Inherited(rows) \in Days \cup {Never}
<1> DEFINE f == [r \in rows |-> plan[r].price]
<1>1. \A r \in rows : f[r] = plan[r].price /\ plan[r].price \in Prices \cup {0}
  BY DEF Plans
<1>2. f \in [rows -> Int]
  <2>1. \A r \in rows : plan[r].price \in Nat
    BY <1>1, PricesAreNat
  <2> QED BY <2>1
<1>2a. {f[r] : r \in rows} = {plan[r].price : r \in rows}
  BY <1>1
<1> HIDE DEF f
<1>3. PICK x \in rows : Max({f[r] : r \in rows}) = f[x]
  BY <1>2, MaxTaken
<1>4. Dearest(rows) = plan[x].price
  BY <1>1, <1>2a, <1>3 DEF Dearest
<1> DEFINE Same == {r \in rows : plan[r].price = Dearest(rows)}
<1>5. Same \in SUBSET Rows /\ Same # {}
  BY <1>4
<1>6. Previous(rows) \in Same
  <2> HIDE DEF Same
  <2>1. Max(Same) \in Same
    BY <1>5, NewestOf
  <2> QED BY <2>1 DEF Same, Previous
<1>7. Inherited(rows) \in Days \cup {Never}
  BY <1>6 DEF Inherited, Plans
<1> QED BY <1>1, <1>4, <1>7, PricesAreNat

\* The first day a lane is billed from is one of its anchors.
LEMMA AnchorTaken ==
    ASSUME plan \in [Rows -> Plans], NEW rows \in SUBSET Rows, rows # {}
    PROVE  LaneAnchor(rows) \in Days \cup {Never}
<1> DEFINE f == [r \in rows |-> plan[r].anchor]
<1>1. \A r \in rows : f[r] = plan[r].anchor /\ plan[r].anchor \in Days \cup {Never}
  BY DEF Plans
<1>2. f \in [rows -> Int] /\ {f[r] : r \in rows} = {plan[r].anchor : r \in rows}
  BY <1>1 DEF Days, Never
<1> HIDE DEF f
<1>3. PICK x \in rows : Min({f[r] : r \in rows}) = f[x] /\ \A r \in rows : f[x] =< f[r]
  BY <1>2, MinTaken, Zenon
<1> QED BY <1>1, <1>2, <1>3 DEF LaneAnchor

\* The row charged for a period is the newest of those that held it.
LEMMA WinnerHeld ==
    ASSUME NEW rows \in SUBSET Rows, NEW p, \E r \in rows : HoldsPeriod(r, p)
    PROVE  /\ Winner(rows, p) \in rows /\ HoldsPeriod(Winner(rows, p), p)
           /\ \A r \in rows : HoldsPeriod(r, p) => Winner(rows, p) >= r
<1> DEFINE T == {r \in rows : HoldsPeriod(r, p)}
<1>1. T \in SUBSET Rows /\ T # {}
  OBVIOUS
<1> HIDE DEF T
<1>2. Max(T) \in T /\ \A r \in T : Max(T) >= r
  BY <1>1, NewestOf
<1> QED BY <1>2 DEF T, Winner

\* A period is billed from a day that is not past its end.
LEMMA BilledWithin ==
    ASSUME plan \in [Rows -> Plans], NEW rows \in SUBSET Rows, NEW p \in Nat,
           \E r \in rows : HoldsPeriod(r, p), LaneAnchor(rows) \in Nat,
           LaneAnchor(rows) <= Last(p)
    PROVE  BilledFrom(rows, p) \in Nat /\ BilledFrom(rows, p) <= Last(p)
<1>0. First(p) \in Nat /\ Last(p) \in Nat /\ First(p) <= Last(p)
  BY PeriodsApart
<1>1. CASE LaneAnchor(rows) > First(p) \/ \E r \in rows : plan[r].start <= First(p) /\ HoldsPeriod(r, p)
  <2>1. BilledFrom(rows, p) = Max({LaneAnchor(rows), First(p)})
    BY <1>1 DEF BilledFrom
  <2> DEFINE T == {LaneAnchor(rows), First(p)}
  <2>2. \E x \in T : \A y \in T : x >= y
    BY <1>0
  <2>3. Max(T) \in T
    <3>1. T \subseteq Int
      BY <1>0
    <3> HIDE DEF T
    <3> QED BY <2>2, <3>1, MaxIs
  <2> QED BY <1>0, <2>1, <2>3
<1>2. CASE ~(LaneAnchor(rows) > First(p) \/ \E r \in rows : plan[r].start <= First(p) /\ HoldsPeriod(r, p))
  <2> DEFINE T == {s \in rows : HoldsPeriod(s, p)}
             f == [r \in T |-> plan[r].start]
  <2>1. T \in SUBSET Rows /\ T # {}
    OBVIOUS
  <2>2. \A r \in T : f[r] = plan[r].start /\ plan[r].start \in Nat /\ plan[r].start <= Last(p)
    BY DEF Plans, Days, HoldsPeriod
  <2>3. BilledFrom(rows, p) = Min({plan[r].start : r \in T})
    BY <1>2 DEF BilledFrom
  <2>4. f \in [T -> Int] /\ {plan[r].start : r \in T} = {f[r] : r \in T}
    BY <2>2
  <2> HIDE DEF T, f
  <2>5. PICK x \in T : Min({f[r] : r \in T}) = f[x] /\ \A r \in T : f[x] =< f[r]
    BY <2>1, <2>4, MinTaken, Zenon
  <2> QED BY <2>2, <2>3, <2>4, <2>5
<1> QED BY <1>1, <1>2

\* A share of a price is an amount.
LEMMA ShareIsNat ==
    ASSUME NEW price \in Nat, NEW days \in Nat
    PROVE  (2 * price * days + PeriodDays) \div (2 * PeriodDays) \in Nat
<1>1. 2 * price * days \in Nat /\ 2 * PeriodDays \in Nat \ {0}
  OBVIOUS
<1> DEFINE n == 2 * price * days + PeriodDays
           d == 2 * PeriodDays
<1>2. n \in Nat /\ d \in Nat \ {0}
  BY <1>1
<1> HIDE DEF n, d
<1>3. n \div d \in Nat
  BY <1>2
<1> QED BY <1>3 DEF n, d

\* What a run means to charge: one amount for each period that was reached and held,
\* on the newest row that held it.
LEMMA WinnersCharge ==
    ASSUME plan \in [Rows -> Plans], day \in Days, NEW ids \in SUBSET Rows
    PROVE  /\ Winners(ids) \subseteq Charges
           /\ \A c, d \in Winners(ids) : c.key[2] = d.key[2] => c = d
           /\ \A c \in Winners(ids) :
                 /\ c.key[2] \in Nat /\ c.key[2] <= PeriodOf(day)
                 /\ c.key[1] \in Held(ids) /\ HoldsPeriod(c.key[1], c.key[2])
                 /\ \A r \in Held(ids) : HoldsPeriod(r, c.key[2]) => c.key[1] >= r
<1> DEFINE rows == Held(ids)
           charge(p) == [key |-> <<Winner(rows, p), p>>, base |-> Share(Winner(rows, p), rows, p)]
<1>1. CASE rows \cap Live = {} \/ LaneAnchor(rows) = Never
  <2>1. Winners(ids) = {}
    BY <1>1 DEF Winners
  <2> QED BY <2>1
<1>2. CASE ~(rows \cap Live = {} \/ LaneAnchor(rows) = Never)
  <2>1. rows \in SUBSET Rows /\ rows # {}
    BY <1>2 DEF Held
  <2>2. Winners(ids) = {charge(p) : p \in Reached(rows)}
    BY <1>2 DEF Winners
  <2>3. LaneAnchor(rows) \in Days /\ LaneAnchor(rows) \in Nat
    BY <1>2, <2>1, AnchorTaken DEF Days
  <2>4. ASSUME NEW p \in Reached(rows)
        PROVE  /\ p \in Nat /\ p <= PeriodOf(day) /\ p \in Periods
               /\ Winner(rows, p) \in rows /\ HoldsPeriod(Winner(rows, p), p)
               /\ \A r \in rows : HoldsPeriod(r, p) => Winner(rows, p) >= r
               /\ charge(p) \in Charges
    <3>1. /\ PeriodOf(LaneAnchor(rows)) \in Nat /\ LaneAnchor(rows) <= Last(PeriodOf(LaneAnchor(rows)))
          /\ PeriodOf(day) \in Nat /\ PeriodOf(day) \in Periods
      BY <2>3, PeriodDaysOf, DayIsInAPeriod DEF Days
    <3>2. /\ p \in Nat /\ p <= PeriodOf(day) /\ p \in Periods /\ PeriodOf(LaneAnchor(rows)) <= p
          /\ \E r \in rows : HoldsPeriod(r, p)
      BY <3>1, PeriodDaysOf DEF Reached, Periods
    <3>3. LaneAnchor(rows) <= Last(p)
      <4>1. Last(PeriodOf(LaneAnchor(rows))) <= Last(p) /\ Last(p) \in Nat
            /\ Last(PeriodOf(LaneAnchor(rows))) \in Nat
        BY <3>1, <3>2, PeriodsApart
      <4> QED BY <2>3, <3>1, <4>1
    <3>4. /\ Winner(rows, p) \in rows /\ HoldsPeriod(Winner(rows, p), p)
          /\ \A r \in rows : HoldsPeriod(r, p) => Winner(rows, p) >= r
      BY <2>1, <3>2, WinnerHeld
    <3>5. BilledFrom(rows, p) \in Nat /\ BilledFrom(rows, p) <= Last(p) /\ Last(p) \in Nat
      BY <2>1, <2>3, <3>2, <3>3, BilledWithin, PeriodsApart
    <3>6. plan[Winner(rows, p)].price \in Nat
      BY <2>1, <3>4, PricesAreNat DEF Plans
    <3>7. Share(Winner(rows, p), rows, p) \in Nat
      <4>1. Last(p) - BilledFrom(rows, p) + 1 \in Nat
        BY <3>5
      <4> QED BY <3>6, <4>1, ShareIsNat DEF Share
    <3>8. charge(p) \in Charges
      BY <2>1, <3>2, <3>4, <3>7 DEF Charges, Keys
    <3> QED BY <3>2, <3>4, <3>8
  <2>5. \A p : charge(p).key[1] = Winner(rows, p) /\ charge(p).key[2] = p
    OBVIOUS
  <2> HIDE DEF rows, charge
  <2>6. \A c, d \in Winners(ids) : c.key[2] = d.key[2] => c = d
    BY <2>2, <2>5
  <2>7. \A c \in Winners(ids) : \E p \in Reached(rows) : c = charge(p)
    BY <2>2
  <2> QED BY <2>4, <2>5, <2>6, <2>7 DEF rows
<1> QED BY <1>1, <1>2

\* A credit gives no more than it has left, and never less than nothing.
LEMMA GivenWithin ==
    ASSUME credits \in [Rows -> Credits], NEW r \in Rows, NEW base \in Nat
    PROVE  Given(r, base) \in Nat /\ Given(r, base) <= credits[r].left
<1>1. credits[r].left \in Nat
  BY DEF Credits
<1>2. Older(r) \in Nat
  <2> DEFINE f == [s \in Rows |-> credits[s].left]
             T == 1 .. r - 1
  <2>1. T \in SUBSET Rows /\ \A s \in T : f[s] \in Nat
    BY DEF Rows, Credits
  <2>2. Older(r) = SumFunctionOnSet(f, T)
    BY DEF Older
  <2> HIDE DEF f, T
  <2>3. IsFiniteSet(T)
    BY <2>1, RowsFinite, FS_Subset
  <2> QED BY <2>1, <2>2, <2>3, SumNat
<1> DEFINE m == Max({0, base - Older(r)})
<1>3. m \in Nat
  <2> DEFINE T == {0, base - Older(r)}
  <2>1. T \subseteq Int /\ \E x \in T : x \in Nat /\ \A y \in T : x >= y
    BY <1>2
  <2> HIDE DEF T
  <2>2. Max(T) \in Nat
    BY <2>1, MaxIs
  <2> QED BY <2>2 DEF T
<1> HIDE DEF m
<1>4. Given(r, base) = Min({credits[r].left, m})
  BY DEF Given, m
<1> DEFINE T == {credits[r].left, m}
<1>5. T \subseteq Int /\ \E x \in T : x \in Nat /\ x <= credits[r].left /\ \A y \in T : x =< y
  BY <1>1, <1>3
<1> HIDE DEF T
<1>6. Min(T) \in Nat /\ Min(T) <= credits[r].left
  BY <1>5, MinIs
<1> QED BY <1>4, <1>6 DEF T

(***************************************************************************)
(* Types                                                                   *)
(***************************************************************************)

TablesTyped ==
    /\ day \in Days /\ made \in Rows /\ opened \in 0 .. MaxOpened /\ approved \in BOOLEAN
    /\ plan \in [Rows -> Plans]
    /\ bills \in [Keys -> Bills]
    /\ credits \in [Rows -> Credits]
    /\ lane \in Actors \cup {Nobody}

LEMMA TypesSplit == TypeOK <=> TablesTyped /\ req \in [Actors -> Requests]
BY DEF TypeOK, TablesTyped

\* A bill or a line as it is first written.
LEMMA NewBill ==
    ASSUME NEW base \in Nat
    PROVE  Bill("upgrade", base) \in Bills /\ Bill("period", base) \in Bills
BY DEF Bill, Bills

LEMMA Asked ==
    ASSUME NEW stage \in Stages, NEW seen \in SUBSET Rows, NEW fresh \in Rows \cup {0},
           NEW line \in SUBSET Keys, NEW todo \in SUBSET Charges
    PROVE  LET r == Request(stage, seen, fresh, line, todo) IN
           /\ r \in Requests
           /\ r.at = stage /\ r.seen = seen /\ r.fresh = fresh /\ r.line = line /\ r.todo = todo
BY DEF Request, Requests

\* A request that has ended asks nothing more.
LEMMA Ended ==
    /\ NoRequest \in Requests /\ NoRequest.at = "idle" /\ NoRequest.todo = {}
BY DEF NoRequest, Request, Requests, Stages

\* What a request may become.
Sound(r, upto) ==
    /\ r.at \in {"pricing", "adjusting"} => r.seen # {} /\ r.fresh \in 1 .. upto
    /\ \A c, d \in r.todo : c.key[2] = d.key[2] => c = d

LEMMA OnlyOneMoves ==
    ASSUME req \in [Actors -> Requests], NEW a \in Actors, NEW r \in Requests, Becomes(a, r)
    PROVE  /\ req' \in [Actors -> Requests]
           /\ req'[a] = r /\ \A b \in Actors \ {a} : req'[b] = req[b]
BY DEF Becomes

LEMMA TypesMoved ==
    ASSUME TypeInv, NEW a \in Actors, NEW r \in Requests, Becomes(a, r), TablesTyped',
           made' >= made, Sound(r, made')
    PROVE  TypeInv'
<1>1. /\ req' \in [Actors -> Requests] /\ req'[a] = r
      /\ \A b \in Actors \ {a} : req'[b] = req[b]
  BY OnlyOneMoves, TypesSplit DEF TypeInv
<1>2. made \in Nat /\ made' \in Nat
  BY DEF TypeInv, TypeOK, TablesTyped, Rows
<1>3. ASSUME NEW b \in Actors
      PROVE  Underway(b)'
  <2>1. CASE b = a
    BY <1>1, <2>1 DEF Underway, Switching, At, Sound
  <2>2. CASE b # a
    BY <1>1, <1>2, <2>2 DEF TypeInv, Underway, Switching, At
  <2> QED BY <2>1, <2>2
<1> QED BY <1>1, <1>3 DEF TypeInv, TypeOK, TablesTyped

\* The lane's steps.
LEMMA LaneTyped ==
    ASSUME TypeInv, NEW q \in Admins, Lane(q)
    PROVE  TypeInv'
<1>0. q \in Actors /\ TablesTyped /\ Live \in SUBSET Rows /\ req[q] \in Requests /\ Underway(q)
      /\ made \in Nat /\ req[q].seen \in SUBSET Rows
  BY TypesSplit DEF TypeInv, Actors, Live, TablesTyped, Rows, Requests
<1>1. CASE TakeLane(q)
  <2> DEFINE r == Request("holding", Live, 0, {}, {})
  <2>1. r \in Requests /\ Sound(r, made)
    BY <1>0, Asked DEF Sound, Stages
  <2>2. Becomes(q, r) /\ made' = made /\ TablesTyped'
    BY <1>0, <1>1 DEF TakeLane, TablesTyped, ledger, money, rest
  <2> HIDE DEF r
  <2> QED BY <1>0, <2>1, <2>2, TypesMoved
<1>2. ASSUME NEW price \in Prices, Switch(q, price)
      PROVE  TypeInv'
  <2> DEFINE r == IF req[q].seen = {} THEN NoRequest
                  ELSE Request("pricing", req[q].seen, made + 1, {}, {})
  <2>0. made' = made + 1 /\ made < MaxRows /\ Becomes(q, r)
        /\ UNCHANGED <<money, rest>> /\ lane' = Nobody
    BY <1>2 DEF Switch
  <2>1. made' \in Rows
    BY <1>0, <2>0 DEF Rows
  <2>2. r \in Requests /\ Sound(r, made')
    <3>1. CASE req[q].seen = {}
      BY <3>1, Ended DEF Sound
    <3>2. CASE req[q].seen # {}
      BY <1>0, <2>0, <2>1, <3>2, Asked DEF Sound, Stages, Rows
    <3> QED BY <3>1, <3>2
  <2>3. plan' \in [Rows -> Plans]
    <3>1. Inherited(req[q].seen) \in Days \cup {Never}
      <4>1. CASE req[q].seen = {}
        BY <1>0, <4>1 DEF Inherited, TablesTyped
      <4>2. CASE req[q].seen # {}
        BY <1>0, <4>2, DearestTaken DEF TablesTyped
      <4> QED BY <4>1, <4>2
    <3>2. Opening(price, day, Inherited(req[q].seen)) \in Plans
      BY <1>0, <3>1 DEF Opening, Plans, TablesTyped
    <3>3. \A x \in Rows : [plan[x] EXCEPT !.end = day, !.live = FALSE] \in Plans /\ plan[x] \in Plans
      BY <1>0 DEF Plans, TablesTyped
    <3> QED BY <1>2, <3>2, <3>3 DEF Switch
  <2>4. TablesTyped' /\ made' >= made
    BY <1>0, <2>0, <2>1, <2>3 DEF TablesTyped, money, rest
  <2> HIDE DEF r
  <2> QED BY <1>0, <2>0, <2>2, <2>4, TypesMoved
<1>3. ASSUME NEW x \in Rows, NEW door \in Doors, Close(q, x, door)
      PROVE  TypeInv'
  <2>1. Becomes(q, NoRequest) /\ made' = made /\ UNCHANGED <<money, rest>> /\ lane' = Nobody
    BY <1>3 DEF Close, Done
  <2>2. Shut(plan[x], door) \in Plans
    BY <1>0 DEF Shut, Plans, TablesTyped
  <2>3. plan' \in [Rows -> Plans]
    BY <1>0, <1>3, <2>2 DEF Close, TablesTyped
  <2>4. TablesTyped' /\ Sound(NoRequest, made')
    BY <1>0, <2>1, <2>3, Ended DEF TablesTyped, money, rest, Sound
  <2> QED BY <1>0, <2>1, <2>4, Ended, TypesMoved
<1>4. CASE RollBack(q)
  <2>1. Becomes(q, NoRequest) /\ made' = made /\ TablesTyped' /\ Sound(NoRequest, made')
    BY <1>0, <1>4, Ended DEF RollBack, Done, TablesTyped, ledger, money, rest, Sound
  <2> QED BY <1>0, <2>1, Ended, TypesMoved
<1>5. CASE FindBill(q)
  <2>1. made' = made /\ TablesTyped'
    BY <1>0, <1>5 DEF FindBill, TablesTyped, ledger, money, rest
  <2>2. CASE Done(q)
    BY <1>0, <2>1, <2>2, Ended, TypesMoved DEF Done, Sound
  <2>3. CASE ~Done(q)
    <3>1. PICK k \in Running :
             Becomes(q, Request("adjusting", req[q].seen, req[q].fresh, {k}, {}))
      BY <1>5, <2>3 DEF FindBill
    <3>2. At(q, "pricing") /\ k \in Keys
      BY <1>5 DEF FindBill, Running
    <3> DEFINE r == Request("adjusting", req[q].seen, req[q].fresh, {k}, {})
    <3>3. r \in Requests /\ r.seen = req[q].seen /\ r.fresh = req[q].fresh /\ r.todo = {}
      <4>1. /\ req[q].seen \in SUBSET Rows /\ req[q].fresh \in Rows \cup {0}
            /\ {k} \in SUBSET Keys /\ {} \in SUBSET Charges /\ "adjusting" \in Stages
        BY <1>0, <3>2 DEF Stages, Requests
      <4> QED BY <4>1, Asked
    <3>4. Sound(r, made)
      BY <1>0, <3>2, <3>3 DEF Sound, Underway, Switching
    <3> HIDE DEF r
    <3>5. Becomes(q, r)
      BY <3>1 DEF r
    <3> QED BY <1>0, <2>1, <3>3, <3>4, <3>5, TypesMoved
  <2> QED BY <2>2, <2>3
<1>6. CASE Adjust(q)
  <2>1. PICK k \in req[q].line :
          IF Difference(q) > 0
          THEN Upgrade(<<req[q].fresh, k[2]>>, Difference(q)) /\ UNCHANGED credits
          ELSE /\ credits' = [credits EXCEPT ![req[q].fresh] =
                     [of |-> {k}, amount |-> -Difference(q), left |-> -Difference(q)]]
               /\ UNCHANGED bills
    BY <1>6 DEF Adjust
  <2>2. Becomes(q, NoRequest) /\ UNCHANGED <<ledger, lane, rest>> /\ At(q, "adjusting")
    BY <1>6 DEF Adjust, Done
  <2>3. req[q].seen # {} /\ req[q].fresh \in Rows /\ k \in Keys
    BY <1>0, <2>2 DEF Underway, Switching, Requests
  <2>4. Difference(q) \in Int
    <3>1. plan[req[q].fresh].price \in Nat
      BY <1>0, <2>3, PricesAreNat DEF TablesTyped, Plans
    <3>2. Dearest(req[q].seen) \in Nat
      BY <1>0, <2>3, DearestTaken DEF TablesTyped
    <3> QED BY <3>1, <3>2 DEF Difference
  <2>5. bills' \in [Keys -> Bills] /\ credits' \in [Rows -> Credits]
    <3>1. CASE Difference(q) > 0
      <4>1. Bill("upgrade", Difference(q)) \in Bills
        BY <2>4, <3>1, NewBill
      <4> QED BY <1>0, <2>1, <3>1, <4>1 DEF Upgrade, TablesTyped
    <3>2. CASE ~(Difference(q) > 0)
      <4>1. [of |-> {k}, amount |-> -Difference(q), left |-> -Difference(q)] \in Credits
        BY <2>3, <2>4, <3>2 DEF Credits
      <4> QED BY <1>0, <2>1, <2>3, <3>2, <4>1 DEF TablesTyped
    <3> QED BY <3>1, <3>2
  <2>6. TablesTyped' /\ made' = made /\ Sound(NoRequest, made')
    BY <1>0, <2>2, <2>5, Ended DEF TablesTyped, ledger, rest, Sound
  <2> QED BY <1>0, <2>2, <2>6, Ended, TypesMoved
<1> QED BY <1>1, <1>2, <1>3, <1>4, <1>5, <1>6 DEF Lane, AdminOn

\* A run goes on with what is left to charge, or has ended.
LEMMA Goes ==
    ASSUME NEW g, NEW stage \in Stages, NEW charges \in SUBSET Charges, Proceed(g, stage, charges)
    PROVE  \E r \in Requests : /\ Becomes(g, r) /\ r.todo = charges
                              /\ r.at = IF charges = {} THEN "idle" ELSE stage
<1>1. CASE charges = {}
  BY <1>1, Ended DEF Proceed, Done
<1>2. CASE charges # {}
  <2>1. {} \in SUBSET Rows /\ 0 \in Rows \cup {0} /\ {} \in SUBSET Keys
    OBVIOUS
  <2>2. LET r == Request(stage, {}, 0, {}, charges) IN
        r \in Requests /\ r.at = stage /\ r.todo = charges
    BY <2>1, Asked
  <2> QED BY <1>2, <2>2 DEF Proceed
<1> QED BY <1>1, <1>2

\* What a run inserts.
LEMMA MintedTyped ==
    ASSUME bills \in [Keys -> Bills], NEW g \in Runs, Mint(g), req[g].todo \in SUBSET Charges
    PROVE  /\ bills' \in [Keys -> Bills]
           /\ \A k \in Keys :
                 IF \E c \in req[g].todo : c.key = k /\ bills[k].kind = "none"
                 THEN \E c \in req[g].todo : c.key = k /\ bills'[k] = Bill("period", c.base)
                 ELSE bills'[k] = bills[k]
<1> DEFINE new == {c \in req[g].todo : bills[c.key].kind = "none"}
<1>1. bills' = [k \in Keys |->
             IF \E c \in new : c.key = k
             THEN Bill("period", (CHOOSE c \in new : c.key = k).base)
             ELSE bills[k]]
  BY DEF Mint
<1>2. ASSUME NEW k \in Keys, NEW c \in new, c.key = k
      PROVE  \E d \in new : /\ d.key = k /\ bills'[k] = Bill("period", d.base)
                            /\ Bill("period", d.base) \in Bills
  <2> DEFINE d == CHOOSE x \in new : x.key = k
  <2>1. d \in new /\ d.key = k
    BY <1>2, Zenon
  <2>2. bills'[k] = Bill("period", d.base)
    BY <1>1, <1>2
  <2>3. d.base \in Nat
    BY <2>1 DEF Charges
  <2> QED BY <2>1, <2>2, <2>3, NewBill
<1>3. \A k \in Keys : (~\E c \in new : c.key = k) => bills'[k] = bills[k]
  BY <1>1
<1>4. \A k \in Keys : bills'[k] \in Bills
  BY <1>2, <1>3
<1>5. bills' \in [Keys -> Bills]
  <2>1. DOMAIN bills' = Keys /\ bills' = [k \in Keys |-> bills'[k]]
    BY <1>1
  <2> QED BY <1>4, <2>1
<1>6. \A k \in Keys :
        (\E c \in new : c.key = k) <=> \E c \in req[g].todo : c.key = k /\ bills[k].kind = "none"
  OBVIOUS
<1> QED BY <1>2, <1>3, <1>5, <1>6

\* What the credits give one bill.
Used(c) == SumFunction([r \in Rows |-> Given(r, c.base)])

LEMMA SpentTyped ==
    ASSUME bills \in [Keys -> Bills], credits \in [Rows -> Credits],
           NEW g \in Runs, NEW c \in Charges, SpendCredits(g, c)
    PROVE  /\ bills' \in [Keys -> Bills] /\ credits' \in [Rows -> Credits]
           /\ Used(c) \in Nat
           /\ \A r \in Rows : /\ Given(r, c.base) \in Nat /\ Given(r, c.base) <= credits[r].left
                             /\ credits'[r].left = credits[r].left - Given(r, c.base)
                             /\ credits'[r].amount = credits[r].amount
                             /\ credits'[r].of = credits[r].of
           /\ bills' = IF Used(c) = 0 THEN bills ELSE [bills EXCEPT ![c.key].credit = Used(c)]
<1>0. c.base \in Nat /\ c.key \in Keys
  BY DEF Charges
<1>1. \A r \in Rows : Given(r, c.base) \in Nat /\ Given(r, c.base) <= credits[r].left
  BY <1>0, GivenWithin
<1>2. Used(c) \in Nat
  <2> DEFINE f == [r \in Rows |-> Given(r, c.base)]
  <2>1. DOMAIN f = Rows /\ \A r \in Rows : f[r] \in Nat
    BY <1>1
  <2>2. Used(c) = SumFunctionOnSet(f, DOMAIN f)
    BY DEF Used, SumFunction
  <2> HIDE DEF f
  <2> QED BY <2>1, <2>2, RowsFinite, SumNat
<1>3. credits' = [r \in Rows |-> [credits[r] EXCEPT !.left = @ - Given(r, c.base)]]
  BY DEF SpendCredits
<1>4. \A r \in Rows : /\ [credits[r] EXCEPT !.left = @ - Given(r, c.base)] \in Credits
                      /\ credits'[r].left = credits[r].left - Given(r, c.base)
                      /\ credits'[r].amount = credits[r].amount
                      /\ credits'[r].of = credits[r].of
  <2>1. ASSUME NEW r \in Rows
        PROVE  /\ [credits[r] EXCEPT !.left = @ - Given(r, c.base)] \in Credits
               /\ credits'[r].left = credits[r].left - Given(r, c.base)
               /\ credits'[r].amount = credits[r].amount
               /\ credits'[r].of = credits[r].of
    <3>1. credits[r] \in Credits /\ credits[r].left \in Nat
      BY DEF Credits
    <3>2. credits[r].left - Given(r, c.base) \in Nat
      BY <1>1, <3>1
    <3>3. credits'[r] = [credits[r] EXCEPT !.left = credits[r].left - Given(r, c.base)]
      BY <1>3
    <3> QED BY <3>1, <3>2, <3>3 DEF Credits
  <2> QED BY <2>1
<1>5. credits' \in [Rows -> Credits]
  BY <1>3, <1>4
<1>6. bills' = IF Used(c) = 0 THEN bills ELSE [bills EXCEPT ![c.key].credit = Used(c)]
  BY DEF SpendCredits, Used
<1>7. bills' \in [Keys -> Bills]
  BY <1>0, <1>2, <1>6 DEF Bills
<1> QED BY <1>1, <1>2, <1>4, <1>5, <1>6, <1>7

\* The steps of an approval or a run.
LEMMA RunTyped ==
    ASSUME TypeInv, NEW g \in Runs, Approve(g) \/ ReadPlans(g) \/ RunOn(g)
    PROVE  TypeInv'
<1>0. g \in Actors /\ TablesTyped /\ Waiting \in SUBSET Rows /\ req[g] \in Requests /\ Underway(g)
      /\ made \in Nat /\ 1 .. made \in SUBSET Rows
      /\ req[g].seen \in SUBSET Rows /\ req[g].todo \in SUBSET Charges
  BY TypesSplit DEF TypeInv, Actors, Waiting, TablesTyped, Rows, Requests
<1>1. CASE Approve(g)
  <2> DEFINE r == Request("stamping", Waiting, 0, {}, {})
  <2>1. r \in Requests /\ Sound(r, made)
    BY <1>0, Asked DEF Sound, Stages
  <2>2. Becomes(g, r) /\ made' = made /\ TablesTyped'
    BY <1>0, <1>1 DEF Approve, TablesTyped, ledger, money
  <2> HIDE DEF r
  <2> QED BY <1>0, <2>1, <2>2, TypesMoved
<1>2. CASE Stamp(g)
  <2> DEFINE stamped == req[g].seen \cap Waiting
             r == IF stamped = {} THEN NoRequest ELSE Request("reading", stamped, 0, {}, {})
  <2>1. r \in Requests /\ Sound(r, made)
    <3>1. CASE stamped = {}
      BY <3>1, Ended DEF Sound
    <3>2. CASE stamped # {}
      BY <1>0, <3>2, Asked DEF Sound, Stages
    <3> QED BY <3>1, <3>2
  <2>2. Becomes(g, r) /\ made' = made
        /\ plan' = [x \in Rows |-> IF x \in stamped THEN [plan[x] EXCEPT !.anchor = day] ELSE plan[x]]
    BY <1>2 DEF Stamp, Done
  <2>3. \A x \in Rows : plan[x] \in Plans /\ [plan[x] EXCEPT !.anchor = day] \in Plans
    BY <1>0 DEF TablesTyped, Plans
  <2>4. TablesTyped'
    BY <1>0, <1>2, <2>2, <2>3 DEF Stamp, TablesTyped, money, rest
  <2> HIDE DEF r
  <2> QED BY <1>0, <2>1, <2>2, <2>4, TypesMoved
<1>3. ASSUME NEW stage \in Stages \ {"pricing", "adjusting"}, NEW charges \in SUBSET Charges,
             \A c, d \in charges : c.key[2] = d.key[2] => c = d,
             Proceed(g, stage, charges), made' = made, TablesTyped'
      PROVE  TypeInv'
  <2>1. PICK r \in Requests : /\ Becomes(g, r) /\ r.todo = charges
                             /\ r.at = IF charges = {} THEN "idle" ELSE stage
    BY <1>3, Goes
  <2>2. Sound(r, made')
    BY <1>3, <2>1 DEF Sound
  <2> QED BY <1>0, <1>3, <2>1, <2>2, TypesMoved
<1>4. CASE ReadPlans(g)
  <2> DEFINE ids == IF At(g, "reading") THEN req[g].seen ELSE 1 .. made
  <2>1. ids \in SUBSET Rows
    BY <1>0
  <2>2. Proceed(g, "planned", Winners(ids))
    BY <1>4 DEF ReadPlans
  <2> HIDE DEF ids
  <2>3. Winners(ids) \subseteq Charges /\ \A c, d \in Winners(ids) : c.key[2] = d.key[2] => c = d
    BY <1>0, <2>1, WinnersCharge DEF TablesTyped
  <2>4. made' = made /\ TablesTyped' /\ "planned" \in Stages \ {"pricing", "adjusting"}
    BY <1>0, <1>4 DEF ReadPlans, TablesTyped, ledger, money, rest, Stages
  <2> QED BY <1>3, <2>2, <2>3, <2>4
<1>5. CASE ReadBills(g)
  <2> DEFINE charges == {c \in req[g].todo : Billed(c.key[2]) = {}}
  <2>1. charges \in SUBSET Charges /\ \A c, d \in charges : c.key[2] = d.key[2] => c = d
    BY <1>0 DEF Underway
  <2>2. made' = made /\ TablesTyped' /\ "checked" \in Stages \ {"pricing", "adjusting"}
        /\ Proceed(g, "checked", charges)
    BY <1>0, <1>5 DEF ReadBills, TablesTyped, ledger, money, rest, Stages
  <2> HIDE DEF charges
  <2> QED BY <1>3, <2>1, <2>2
<1>6. CASE Mint(g)
  <2> DEFINE charges == {c \in req[g].todo : bills[c.key].kind = "none"}
  <2>1. charges \in SUBSET Charges /\ \A c, d \in charges : c.key[2] = d.key[2] => c = d
    BY <1>0 DEF Underway
  <2>2. bills' \in [Keys -> Bills]
    BY <1>0, <1>6, MintedTyped DEF TablesTyped
  <2>3. made' = made /\ TablesTyped' /\ "minted" \in Stages \ {"pricing", "adjusting"}
        /\ Proceed(g, "minted", charges)
    BY <1>0, <1>6, <2>2 DEF Mint, TablesTyped, ledger, rest, Stages
  <2> HIDE DEF charges
  <2> QED BY <1>3, <2>1, <2>3
<1>7. ASSUME NEW c \in req[g].todo, SpendCredits(g, c)
      PROVE  TypeInv'
  <2> DEFINE charges == req[g].todo \ {c}
  <2>1. charges \in SUBSET Charges /\ \A d, e \in charges : d.key[2] = e.key[2] => d = e
    BY <1>0 DEF Underway
  <2>2. bills' \in [Keys -> Bills] /\ credits' \in [Rows -> Credits]
    BY <1>0, <1>7, SpentTyped DEF TablesTyped
  <2>3. made' = made /\ TablesTyped' /\ "minted" \in Stages \ {"pricing", "adjusting"}
        /\ Proceed(g, "minted", charges)
    BY <1>0, <1>7, <2>2 DEF SpendCredits, TablesTyped, ledger, rest, Stages
  <2> HIDE DEF charges
  <2> QED BY <1>3, <2>1, <2>3
<1> QED BY <1>1, <1>2, <1>4, <1>5, <1>6, <1>7 DEF RunOn

\* Nothing else touches a request.
LEMMA ElsewhereTyped ==
    ASSUME TypeInv, Elsewhere
    PROVE  TypeInv'
<1>0. TablesTyped /\ req \in [Actors -> Requests] /\ made \in Nat
  BY TypesSplit DEF TypeInv, TablesTyped, Rows
<1>1. ASSUME req' = req, made' >= made, TablesTyped'
      PROVE  TypeInv'
  <2>1. made' \in Nat
    BY <1>1 DEF TablesTyped, Rows
  <2>2. \A a \in Actors : Underway(a)'
    BY <1>0, <1>1, <2>1 DEF TypeInv, Underway, Switching, At
  <2> QED BY <1>0, <1>1, <2>2 DEF TypeInv, TypeOK, TablesTyped
<1>2. CASE NextDay
  <2>1. day' \in Days
    BY <1>0, <1>2 DEF NextDay, TablesTyped, Days
  <2>2. req' = req /\ made' = made /\ TablesTyped'
    BY <1>0, <1>2, <2>1 DEF NextDay, TablesTyped, ledger, money
  <2> QED BY <1>0, <1>1, <2>2
<1>3. ASSUME NEW k \in Keys, Pay(k) \/ VoidBill(k)
      PROVE  TypeInv'
  <2>1. bills' \in [Keys -> Bills]
    BY <1>0, <1>3 DEF Pay, VoidBill, TablesTyped, Bills
  <2>2. req' = req /\ made' = made /\ TablesTyped'
    BY <1>0, <1>3, <2>1 DEF Pay, VoidBill, TablesTyped, ledger, rest
  <2> QED BY <1>0, <1>1, <2>2
<1>4. ASSUME NEW price \in Prices, CreateRow(price)
      PROVE  TypeInv'
  <2>1. made' = made + 1 /\ made' \in Rows /\ opened' \in 0 .. MaxOpened /\ req' = req
    BY <1>0, <1>4 DEF CreateRow, TablesTyped, Rows
  <2>2. plan' \in [Rows -> Plans]
    <3>1. Opening(price, day, day) \in Plans
      BY <1>0 DEF Opening, Plans, TablesTyped
    <3> QED BY <1>0, <1>4, <3>1 DEF CreateRow, TablesTyped
  <2>3. TablesTyped'
    BY <1>0, <1>4, <2>1, <2>2 DEF CreateRow, TablesTyped, money
  <2> QED BY <1>0, <1>1, <2>1, <2>3
<1>5. ASSUME NEW x \in Rows, Reopen(x)
      PROVE  TypeInv'
  <2>1. made' = made /\ opened' \in 0 .. MaxOpened /\ req' = req
    BY <1>0, <1>5 DEF Reopen, TablesTyped
  <2>2. plan' \in [Rows -> Plans]
    <3>1. [plan[x] EXCEPT !.end = Never, !.live = TRUE] \in Plans
      BY <1>0 DEF Plans, TablesTyped
    <3> QED BY <1>0, <1>5, <3>1 DEF Reopen, TablesTyped
  <2>3. TablesTyped'
    BY <1>0, <1>5, <2>1, <2>2 DEF Reopen, TablesTyped, money
  <2> QED BY <1>0, <1>1, <2>1, <2>3
<1> QED BY <1>2, <1>3, <1>4, <1>5 DEF Elsewhere

LEMMA DieTyped ==
    ASSUME TypeInv, NEW a \in Actors, Die(a)
    PROVE  TypeInv'
<1>0. TablesTyped /\ made \in Nat
  BY TypesSplit DEF TypeInv, TablesTyped, Rows
<1>1. Becomes(a, NoRequest) /\ made' = made /\ TablesTyped'
  BY <1>0 DEF Die, Done, TablesTyped, ledger, money, rest
<1>2. Sound(NoRequest, made')
  BY Ended DEF Sound
<1> QED BY <1>0, <1>1, <1>2, Ended, TypesMoved

\* The organisation registers, with no bill and no credit.
LEMMA StartTyped == Init => TypeInv
<1> SUFFICES ASSUME Init PROVE TypeInv
  OBVIOUS
<1>1. PICK price \in Prices :
        plan = [r \in Rows |-> IF r = 1 THEN Opening(price, 0, Never) ELSE NoPlan]
  BY DEF Init
<1>2. Opening(price, 0, Never) \in Plans /\ NoPlan \in Plans
  BY DEF Opening, NoPlan, Plans, Days, Never
<1>3. NoBill \in Bills /\ NoCredit \in Credits
  BY DEF NoBill, Bill, Bills, NoCredit, Credits
<1>4. TablesTyped
  <2>1. day \in Days /\ made \in Rows /\ opened \in 0 .. MaxOpened /\ approved \in BOOLEAN
    <3>1. day = 0 /\ made = 1 /\ opened = 0 /\ approved = FALSE
      BY DEF Init
    <3>2. approved \in BOOLEAN
      BY <3>1
    <3>3. day \in Days /\ made \in Rows /\ opened \in 0 .. MaxOpened
      BY <3>1 DEF Days, Rows
    <3> QED BY <3>2, <3>3
  <2>2. plan \in [Rows -> Plans]
    BY <1>1, <1>2
  <2>3. bills \in [Keys -> Bills] /\ credits \in [Rows -> Credits]
    BY <1>3 DEF Init
  <2>4. lane \in Actors \cup {Nobody}
    BY DEF Init
  <2> QED BY <2>1, <2>2, <2>3, <2>4 DEF TablesTyped
<1>5. req = [a \in Actors |-> NoRequest]
  BY DEF Init
<1>6. \A a \in Actors : Underway(a)
  BY <1>5, Ended DEF Underway, Switching, At
<1> QED BY <1>4, <1>5, <1>6, Ended, TypesSplit DEF TypeInv

LEMMA StepTyped == TypeInv /\ [Next]_vars => TypeInv'
<1> SUFFICES ASSUME TypeInv, [Next]_vars PROVE TypeInv'
  OBVIOUS
<1>1. CASE UNCHANGED vars
  BY <1>1 DEF vars, TypeInv, TypeOK, Underway, Switching, At
<1> QED BY <1>1, LaneTyped, DieTyped, RunTyped, ElsewhereTyped DEF Next, Actors

\* The ledger, the bills, the credits and what each request holds keep their types,
\* whatever overlaps: every share of a price is a whole number of sen, and no credit
\* is left below nothing.
THEOREM BillingTypes == Spec => []TypeOK
<1>1. TypeInv => TypeOK
  BY DEF TypeInv
<1> QED BY <1>1, StartTyped, StepTyped, PTL DEF Spec

(***************************************************************************)
(* Credits                                                                 *)
(***************************************************************************)

LEMMA KeysFinite == IsFiniteSet(Keys)
<1>1. PeriodOf(MaxDay) \in Int
  BY DEF PeriodOf
<1>2. IsFiniteSet(Periods)
  BY <1>1, FS_Interval DEF Periods
<1> QED BY <1>2, RowsFinite, FS_Product DEF Keys

\* What was given, summed over the rows, against what was taken, over the bills.
LEMMA BalanceIs ==
    CreditsBalance <=> SumFunctionOnSet([r \in Rows |-> credits[r].amount - credits[r].left], Rows)
                         = SumFunctionOnSet([k \in Keys |-> bills[k].credit], Keys)
BY DEF CreditsBalance, SumFunction

LEMMA BalanceKept ==
    ASSUME CreditsBalance,
           \A r \in Rows : credits'[r].amount - credits'[r].left = credits[r].amount - credits[r].left,
           \A k \in Keys : bills'[k].credit = bills[k].credit
    PROVE  CreditsBalance'
<1> DEFINE f == [r \in Rows |-> credits[r].amount - credits[r].left]
           g == [r \in Rows |-> credits'[r].amount - credits'[r].left]
           h == [k \in Keys |-> bills[k].credit]
           i == [k \in Keys |-> bills'[k].credit]
<1>1. (\A r \in Rows : f[r] = g[r]) /\ (\A k \in Keys : h[k] = i[k])
  OBVIOUS
<1>2. SumFunctionOnSet(f, Rows) = SumFunctionOnSet(h, Keys)
  BY BalanceIs
<1>3. SumFunctionOnSet(g, Rows) = SumFunctionOnSet(i, Keys) => CreditsBalance'
  BY DEF CreditsBalance, SumFunction
<1> HIDE DEF f, g, h, i
<1>4. SumFunctionOnSet(f, Rows) = SumFunctionOnSet(g, Rows)
  BY <1>1, RowsFinite, SumSame
<1>5. SumFunctionOnSet(h, Keys) = SumFunctionOnSet(i, Keys)
  BY <1>1, KeysFinite, SumSame
<1> QED BY <1>2, <1>3, <1>4, <1>5

\* The tables as CreditsFresh and MintedOnce want them, for everyone but a.
TablesKept(a) ==
    /\ \A r \in Rows : r > made' => credits'[r] = NoCredit
    /\ \A k \in Keys : bills'[k].kind = "none" => bills'[k] = NoBill
    /\ \A b \in Actors \ {a} : Switching(b) => credits'[req[b].fresh] = NoCredit
    /\ \A b \in Actors \ {a} : At(b, "minted") =>
          \A c \in req[b].todo : bills'[c.key].kind # "none" /\ bills'[c.key].credit = 0

\* What a's request may become beside the others.
FitsIn(a, r) ==
    /\ r.at \in {"pricing", "adjusting"} =>
          /\ credits'[r.fresh] = NoCredit
          /\ \A b \in Actors \ {a} : Switching(b) => req[b].fresh # r.fresh
    /\ r.at = "minted" =>
          \A c \in r.todo : /\ bills'[c.key].kind # "none" /\ bills'[c.key].credit = 0
                            /\ \A b \in Actors \ {a} : At(b, "minted") =>
                                  \A d \in req[b].todo : c.key # d.key

LEMMA CreditsMoved ==
    ASSUME CreditInv, NEW a \in Actors, NEW r \in Requests, Becomes(a, r), TablesKept(a), FitsIn(a, r)
    PROVE  CreditsFresh' /\ MintedOnce'
<1>1. /\ req'[a] = r /\ \A b \in Actors \ {a} : req'[b] = req[b]
  BY OnlyOneMoves DEF CreditInv, TypeInv, TypeOK
<1>2. ASSUME NEW b \in Actors, Switching(b)'
      PROVE  credits'[req'[b].fresh] = NoCredit
  <2>1. CASE b = a
    BY <1>1, <1>2, <2>1 DEF Switching, At, FitsIn
  <2>2. CASE b # a
    BY <1>1, <1>2, <2>2 DEF Switching, At, TablesKept
  <2> QED BY <2>1, <2>2
<1>3. ASSUME NEW b \in Actors, NEW c \in Actors, Switching(b)', Switching(c)', req'[b].fresh = req'[c].fresh
      PROVE  b = c
  <2>1. CASE b = a /\ c # a
    BY <1>1, <1>3, <2>1 DEF Switching, At, FitsIn
  <2>2. CASE b # a /\ c = a
    BY <1>1, <1>3, <2>2 DEF Switching, At, FitsIn
  <2>3. CASE b # a /\ c # a
    BY <1>1, <1>3, <2>3 DEF Switching, At, CreditInv, CreditsFresh
  <2> QED BY <2>1, <2>2, <2>3
<1>4. CreditsFresh'
  BY <1>2, <1>3 DEF CreditsFresh, TablesKept
<1>5. ASSUME NEW b \in Actors, At(b, "minted")', NEW c \in req'[b].todo
      PROVE  bills'[c.key].kind # "none" /\ bills'[c.key].credit = 0
  <2>1. CASE b = a
    BY <1>1, <1>5, <2>1 DEF At, FitsIn
  <2>2. CASE b # a
    BY <1>1, <1>5, <2>2 DEF At, TablesKept
  <2> QED BY <2>1, <2>2
<1>6. ASSUME NEW b \in Actors, NEW e \in Actors, At(b, "minted")', At(e, "minted")', b # e,
             NEW c \in req'[b].todo, NEW d \in req'[e].todo
      PROVE  c.key # d.key
  <2>1. CASE b = a
    BY <1>1, <1>6, <2>1 DEF At, FitsIn
  <2>2. CASE e = a
    BY <1>1, <1>6, <2>2 DEF At, FitsIn
  <2>3. CASE b # a /\ e # a
    BY <1>1, <1>6, <2>3 DEF At, CreditInv, MintedOnce
  <2> QED BY <2>1, <2>2, <2>3
<1>7. MintedOnce'
  BY <1>5, <1>6 DEF MintedOnce, TablesKept
<1> QED BY <1>4, <1>7

\* Nothing of the money changes, and no row that is there goes.
LEMMA MoneyUntouched ==
    ASSUME CreditInv, UNCHANGED money, made' >= made, made' \in Int
    PROVE  CreditsBalance' /\ \A a \in Actors : TablesKept(a)
<1>1. bills' = bills /\ credits' = credits /\ made \in Int
  BY DEF money, CreditInv, TypeInv, TypeOK, Rows
<1>2. CreditsBalance'
  BY <1>1 DEF CreditInv, CreditsBalance
<1>3. ASSUME NEW a \in Actors PROVE TablesKept(a)
  <2>1. CreditsFresh /\ MintedOnce
    BY DEF CreditInv
  <2>2. \A r \in Rows : r > made' => r > made
    BY <1>1 DEF Rows
  <2> QED BY <1>1, <2>1, <2>2 DEF TablesKept, CreditsFresh, MintedOnce
<1> QED BY <1>2, <1>3

\* A step that leaves the money alone and takes its request nowhere near it.
LEMMA CreditsAside ==
    ASSUME CreditInv, TypeInv', NEW a \in Actors, NEW r \in Requests, Becomes(a, r), UNCHANGED money,
           made' >= made, r.at \notin {"pricing", "adjusting", "minted"}
    PROVE  CreditInv'
<1>1. made' \in Int
  BY DEF TypeInv, TypeOK, Rows
<1>2. FitsIn(a, r)
  BY DEF FitsIn
<1> QED BY <1>1, <1>2, MoneyUntouched, CreditsMoved DEF CreditInv

\* A switch's adjustment: the line of a dearer plan is put where there is no bill, the
\* credit of a cheaper one on the row it opened, which has none.
LEMMA AdjustIs ==
    ASSUME CreditInv, NEW q \in Admins, Adjust(q)
    PROVE  /\ Switching(q) /\ Becomes(q, NoRequest) /\ UNCHANGED <<ledger, lane, rest>>
           /\ \E k \in req[q].line : \E n \in Keys :
                 /\ k \in Keys /\ n = <<req[q].fresh, k[2]>>
                 /\ req[q].fresh \in 1 .. made /\ req[q].fresh \in Rows
                 /\ credits[req[q].fresh] = NoCredit /\ Difference(q) \in Int
                 /\ \/ /\ Difference(q) > 0 /\ credits' = credits
                       /\ \A l \in Keys : l # n => bills'[l] = bills[l]
                       /\ bills[n].kind = "none" => bills'[n] = Bill("upgrade", Difference(q))
                       /\ bills[n].kind # "none" => bills'[n] = bills[n]
                    \/ /\ Difference(q) <= 0 /\ bills' = bills
                       /\ \A r \in Rows : r # req[q].fresh => credits'[r] = credits[r]
                       /\ credits'[req[q].fresh]
                             = [of |-> {k}, amount |-> -Difference(q), left |-> -Difference(q)]
<1>0. /\ q \in Actors /\ TypeInv /\ CreditsFresh /\ TablesTyped /\ req[q] \in Requests /\ Underway(q)
      /\ made \in Nat /\ req[q].seen \in SUBSET Rows
  BY TypesSplit DEF CreditInv, TypeInv, Actors, TablesTyped, Rows, Requests
<1>1. Becomes(q, NoRequest) /\ UNCHANGED <<ledger, lane, rest>> /\ Switching(q)
  BY DEF Adjust, Done, Switching
<1>2. PICK k \in req[q].line :
        IF Difference(q) > 0
        THEN Upgrade(<<req[q].fresh, k[2]>>, Difference(q)) /\ UNCHANGED credits
        ELSE /\ credits' = [credits EXCEPT ![req[q].fresh] =
                   [of |-> {k}, amount |-> -Difference(q), left |-> -Difference(q)]]
             /\ UNCHANGED bills
  BY DEF Adjust
<1>3. /\ req[q].fresh \in 1 .. made /\ req[q].fresh \in Rows /\ credits[req[q].fresh] = NoCredit
      /\ k \in Keys /\ req[q].seen # {}
  BY <1>0, <1>1 DEF Underway, CreditsFresh, TablesTyped, Rows, Requests
<1>4. Difference(q) \in Int
  <2>1. plan[req[q].fresh].price \in Nat
    BY <1>0, <1>3, PricesAreNat DEF TablesTyped, Plans
  <2>2. Dearest(req[q].seen) \in Nat
    BY <1>0, <1>3, DearestTaken DEF TablesTyped
  <2> QED BY <2>1, <2>2 DEF Difference
<1> DEFINE n == <<req[q].fresh, k[2]>>
<1>5. n \in Keys
  BY <1>3 DEF Keys
<1>6. CASE Difference(q) > 0
  <2> DEFINE v == IF bills[n].kind = "none" THEN Bill("upgrade", Difference(q)) ELSE bills[n]
  <2>1. bills' = [bills EXCEPT ![n] = v] /\ bills \in [Keys -> Bills] /\ credits' = credits
    BY <1>0, <1>2, <1>6 DEF Upgrade, TablesTyped
  <2>2. bills[n].kind = "none" => v = Bill("upgrade", Difference(q))
    OBVIOUS
  <2>3. bills[n].kind # "none" => v = bills[n]
    OBVIOUS
  <2>4. n = <<req[q].fresh, k[2]>>
    OBVIOUS
  <2> HIDE DEF v, n
  <2>5. bills'[n] = v /\ \A l \in Keys : l # n => bills'[l] = bills[l]
    BY <1>5, <2>1
  <2> QED BY <1>1, <1>3, <1>4, <1>5, <1>6, <2>1, <2>2, <2>3, <2>4, <2>5
<1>7. CASE ~(Difference(q) > 0)
  <2>1. credits' = [credits EXCEPT ![req[q].fresh] =
              [of |-> {k}, amount |-> -Difference(q), left |-> -Difference(q)]]
        /\ bills' = bills
    BY <1>2, <1>7
  <2>2. credits'[req[q].fresh] = [of |-> {k}, amount |-> -Difference(q), left |-> -Difference(q)]
        /\ \A r \in Rows : r # req[q].fresh => credits'[r] = credits[r]
    BY <1>0, <1>3, <2>1 DEF TablesTyped
  <2>3. Difference(q) <= 0
    BY <1>4, <1>7
  <2> QED BY <1>1, <1>3, <1>4, <1>5, <2>1, <2>2, <2>3
<1> QED BY <1>6, <1>7

\* The lane's steps: a credit goes to the row the switch opened, which had none.
LEMMA LaneCredits ==
    ASSUME CreditInv, TypeInv', NEW q \in Admins, Lane(q)
    PROVE  CreditInv'
<1>0. /\ q \in Actors /\ TypeInv /\ CreditsFresh /\ MintedOnce /\ CreditsBalance
      /\ TablesTyped /\ Live \in SUBSET Rows /\ req[q] \in Requests /\ Underway(q)
      /\ made \in Nat /\ req[q].seen \in SUBSET Rows
  BY TypesSplit DEF CreditInv, TypeInv, Actors, Live, TablesTyped, Rows, Requests
<1>1. CASE TakeLane(q)
  <2> DEFINE r == Request("holding", Live, 0, {}, {})
  <2>1. r \in Requests /\ r.at = "holding"
    BY <1>0, Asked DEF Stages
  <2>2. Becomes(q, r) /\ made' >= made /\ UNCHANGED money
    BY <1>0, <1>1 DEF TakeLane, ledger
  <2> HIDE DEF r
  <2> QED BY <1>0, <2>1, <2>2, CreditsAside
<1>2. ASSUME NEW price \in Prices, Switch(q, price)
      PROVE  CreditInv'
  <2>1. made' = made + 1 /\ made' >= made /\ made' \in Int /\ made' \in Rows /\ UNCHANGED money
    <3>1. made' = made + 1 /\ UNCHANGED money
      BY <1>2 DEF Switch
    <3>2. made' \in Rows
      BY DEF TypeInv, TypeOK
    <3> QED BY <1>0, <3>1, <3>2
  <2>2. CASE req[q].seen = {}
    <3>1. Becomes(q, NoRequest)
      BY <1>2, <2>2 DEF Switch
    <3> QED BY <1>0, <2>1, <3>1, Ended, CreditsAside
  <2>3. CASE req[q].seen # {}
    <3> DEFINE r == Request("pricing", req[q].seen, made + 1, {}, {})
    <3>1. Becomes(q, r)
      BY <1>2, <2>3 DEF Switch
    <3>2. r \in Requests /\ r.at = "pricing" /\ r.fresh = made + 1
      <4>1. made + 1 \in Rows \cup {0}
        BY <2>1
      <4> QED BY <1>0, <4>1, Asked DEF Stages
    <3> HIDE DEF r
    <3>3. credits'[r.fresh] = NoCredit
      BY <1>0, <2>1, <3>2 DEF CreditsFresh, money
    <3>4. \A b \in Actors : Switching(b) => req[b].fresh # r.fresh
      BY <1>0, <3>2 DEF TypeInv, Underway
    <3>5. FitsIn(q, r)
      BY <3>2, <3>3, <3>4 DEF FitsIn
    <3> QED BY <1>0, <2>1, <3>1, <3>2, <3>5, MoneyUntouched, CreditsMoved DEF CreditInv
  <2> QED BY <2>2, <2>3
<1>3. ASSUME NEW x \in Rows, NEW door \in Doors, Close(q, x, door)
      PROVE  CreditInv'
  <2>1. Becomes(q, NoRequest) /\ made' >= made /\ UNCHANGED money
    BY <1>0, <1>3 DEF Close, Done
  <2> QED BY <1>0, <2>1, Ended, CreditsAside
<1>4. CASE RollBack(q)
  <2>1. Becomes(q, NoRequest) /\ made' >= made /\ UNCHANGED money
    BY <1>0, <1>4 DEF RollBack, Done, ledger
  <2> QED BY <1>0, <2>1, Ended, CreditsAside
<1>5. CASE FindBill(q)
  <2>1. made' = made /\ made' >= made /\ made' \in Int /\ UNCHANGED money
    BY <1>0, <1>5 DEF FindBill, ledger
  <2>2. CASE Done(q)
    BY <1>0, <2>1, <2>2, Ended, CreditsAside DEF Done
  <2>3. CASE ~Done(q)
    <3>1. PICK k \in Running :
             Becomes(q, Request("adjusting", req[q].seen, req[q].fresh, {k}, {}))
      BY <1>5, <2>3 DEF FindBill
    <3>2. At(q, "pricing") /\ k \in Keys
      BY <1>5 DEF FindBill, Running
    <3> DEFINE r == Request("adjusting", req[q].seen, req[q].fresh, {k}, {})
    <3>3. r \in Requests /\ r.at = "adjusting" /\ r.fresh = req[q].fresh
      <4>1. /\ req[q].seen \in SUBSET Rows /\ req[q].fresh \in Rows \cup {0}
            /\ {k} \in SUBSET Keys /\ {} \in SUBSET Charges /\ "adjusting" \in Stages
        BY <1>0, <3>2 DEF Stages, Requests
      <4> QED BY <4>1, Asked
    <3> HIDE DEF r
    <3>4. Becomes(q, r)
      BY <3>1 DEF r
    <3>5. FitsIn(q, r)
      BY <1>0, <2>1, <3>2, <3>3 DEF FitsIn, CreditsFresh, Switching, money
    <3> QED BY <1>0, <2>1, <3>3, <3>4, <3>5, MoneyUntouched, CreditsMoved DEF CreditInv
  <2> QED BY <2>2, <2>3
<1>6. CASE Adjust(q)
  <2>1. PICK k \in req[q].line : \E n \in Keys :
                 /\ k \in Keys /\ n = <<req[q].fresh, k[2]>>
                 /\ req[q].fresh \in 1 .. made /\ req[q].fresh \in Rows
                 /\ credits[req[q].fresh] = NoCredit /\ Difference(q) \in Int
                 /\ \/ /\ Difference(q) > 0 /\ credits' = credits
                       /\ \A l \in Keys : l # n => bills'[l] = bills[l]
                       /\ bills[n].kind = "none" => bills'[n] = Bill("upgrade", Difference(q))
                       /\ bills[n].kind # "none" => bills'[n] = bills[n]
                    \/ /\ Difference(q) <= 0 /\ bills' = bills
                       /\ \A r \in Rows : r # req[q].fresh => credits'[r] = credits[r]
                       /\ credits'[req[q].fresh]
                             = [of |-> {k}, amount |-> -Difference(q), left |-> -Difference(q)]
    BY <1>0, <1>6, AdjustIs
  <2>2. Becomes(q, NoRequest) /\ made' = made /\ Switching(q)
    BY <1>6, AdjustIs DEF ledger
  <2>3. \A b \in Actors \ {q} : Switching(b) => req[b].fresh # req[q].fresh /\ req[b].fresh \in Rows
    BY <1>0, <2>2 DEF TypeInv, Underway, CreditsFresh, TablesTyped, Rows
  <2>4. FitsIn(q, NoRequest)
    BY Ended DEF FitsIn
  <2>5. CASE Difference(q) > 0
    <3>1. /\ credits' = credits
          /\ \A l \in Keys : /\ bills'[l].credit = bills[l].credit
                             /\ bills'[l].kind = "none" => bills'[l] = bills[l]
                             /\ bills[l].kind # "none" => bills'[l].kind # "none"
      <4>1. Bill("upgrade", Difference(q)).credit = 0 /\ Bill("upgrade", Difference(q)).kind # "none"
            /\ NoBill.credit = 0
        BY DEF Bill, NoBill
      <4> QED BY <1>0, <2>1, <2>5, <4>1 DEF MintedOnce
    <3>2. \A b \in Actors : \A c \in req[b].todo : c.key \in Keys
      BY <1>0 DEF TypeInv, TypeOK, Requests, Charges
    <3>3. TablesKept(q)
      <4>1. \A l \in Keys : bills'[l].kind = "none" => bills'[l] = NoBill
        BY <1>0, <3>1 DEF MintedOnce
      <4>2. \A b \in Actors : At(b, "minted") =>
              \A c \in req[b].todo : bills'[c.key].kind # "none" /\ bills'[c.key].credit = 0
        BY <1>0, <3>1, <3>2 DEF MintedOnce
      <4> QED BY <1>0, <2>2, <3>1, <4>1, <4>2 DEF TablesKept, CreditsFresh
    <3>4. CreditsBalance'
      BY <1>0, <3>1, BalanceKept
    <3> QED BY <1>0, <2>2, <2>4, <3>3, <3>4, Ended, CreditsMoved DEF CreditInv
  <2>6. CASE ~(Difference(q) > 0)
    <3>1. /\ bills' = bills /\ Difference(q) \in Int
          /\ \A r \in Rows : r # req[q].fresh => credits'[r] = credits[r]
          /\ credits'[req[q].fresh] = [of |-> {k}, amount |-> -Difference(q), left |-> -Difference(q)]
      BY <2>1, <2>6
    <3>2. TablesKept(q)
      BY <1>0, <2>1, <2>2, <2>3, <3>1 DEF TablesKept, CreditsFresh, MintedOnce
    <3>3. /\ credits'[req[q].fresh].amount - credits'[req[q].fresh].left = 0
          /\ credits[req[q].fresh].amount - credits[req[q].fresh].left = 0
      BY <2>1, <3>1 DEF NoCredit
    <3>4. CreditsBalance'
      BY <1>0, <3>1, <3>3, BalanceKept
    <3> QED BY <1>0, <2>2, <2>4, <3>2, <3>4, Ended, CreditsMoved DEF CreditInv
  <2> QED BY <2>5, <2>6
<1> QED BY <1>1, <1>2, <1>3, <1>4, <1>5, <1>6 DEF Lane, AdminOn

\* The steps of an approval or a run: it spends credits on bills it has inserted, and
\* what the rows give is what the bill takes.
LEMMA RunCredits ==
    ASSUME CreditInv, TypeInv', NEW g \in Runs, Approve(g) \/ ReadPlans(g) \/ RunOn(g)
    PROVE  CreditInv'
<1>0. /\ g \in Actors /\ TypeInv /\ CreditsFresh /\ MintedOnce /\ CreditsBalance
      /\ TablesTyped /\ Waiting \in SUBSET Rows /\ req[g] \in Requests /\ Underway(g)
      /\ made \in Nat /\ 1 .. made \in SUBSET Rows
      /\ req[g].seen \in SUBSET Rows /\ req[g].todo \in SUBSET Charges
  BY TypesSplit DEF CreditInv, TypeInv, Actors, Waiting, TablesTyped, Rows, Requests
<1>1. CASE Approve(g)
  <2> DEFINE r == Request("stamping", Waiting, 0, {}, {})
  <2>1. r \in Requests /\ r.at = "stamping"
    BY <1>0, Asked DEF Stages
  <2>2. Becomes(g, r) /\ made' >= made /\ UNCHANGED money
    BY <1>0, <1>1 DEF Approve, ledger
  <2> HIDE DEF r
  <2> QED BY <1>0, <2>1, <2>2, CreditsAside
<1>2. CASE Stamp(g)
  <2> DEFINE stamped == req[g].seen \cap Waiting
             r == IF stamped = {} THEN NoRequest ELSE Request("reading", stamped, 0, {}, {})
  <2>1. r \in Requests /\ r.at \in {"idle", "reading"}
    <3>1. CASE stamped = {}
      BY <3>1, Ended
    <3>2. CASE stamped # {}
      BY <1>0, <3>2, Asked DEF Stages
    <3> QED BY <3>1, <3>2
  <2>2. Becomes(g, r) /\ made' >= made /\ UNCHANGED money
    BY <1>0, <1>2 DEF Stamp, Done
  <2> HIDE DEF r
  <2> QED BY <1>0, <2>1, <2>2, CreditsAside
<1>3. ASSUME NEW stage \in {"planned", "checked"}, NEW charges \in SUBSET Charges,
             Proceed(g, stage, charges), made' = made, UNCHANGED money
      PROVE  CreditInv'
  <2>1. PICK r \in Requests : /\ Becomes(g, r) /\ r.todo = charges
                             /\ r.at = IF charges = {} THEN "idle" ELSE stage
    BY <1>3, Goes DEF Stages
  <2>2. made' >= made
    BY <1>0, <1>3
  <2> QED BY <1>0, <1>3, <2>1, <2>2, CreditsAside
<1>4. CASE ReadPlans(g)
  <2> DEFINE ids == IF At(g, "reading") THEN req[g].seen ELSE 1 .. made
  <2>1. ids \in SUBSET Rows
    BY <1>0
  <2>2. Proceed(g, "planned", Winners(ids))
    BY <1>4 DEF ReadPlans
  <2> HIDE DEF ids
  <2>3. Winners(ids) \subseteq Charges
    BY <1>0, <2>1, WinnersCharge DEF TablesTyped
  <2>4. made' = made /\ UNCHANGED money
    BY <1>4 DEF ReadPlans, ledger
  <2> QED BY <1>3, <2>2, <2>3, <2>4
<1>5. CASE ReadBills(g)
  <2> DEFINE charges == {c \in req[g].todo : Billed(c.key[2]) = {}}
  <2>1. charges \in SUBSET Charges
    BY <1>0
  <2>2. made' = made /\ UNCHANGED money /\ Proceed(g, "checked", charges)
    BY <1>5 DEF ReadBills, ledger
  <2> HIDE DEF charges
  <2> QED BY <1>3, <2>1, <2>2
<1>6. CASE Mint(g)
  <2> DEFINE charges == {c \in req[g].todo : bills[c.key].kind = "none"}
  <2>1. /\ charges \in SUBSET Charges /\ charges \subseteq req[g].todo
        /\ \A c \in charges : c.key \in Keys /\ bills[c.key].kind = "none"
    BY <1>0 DEF Charges
  <2>2. made' = made /\ credits' = credits /\ Proceed(g, "minted", charges)
    BY <1>6 DEF Mint, ledger
  <2>3. \A k \in Keys : \/ /\ bills'[k] = bills[k]
                           /\ ~\E c \in charges : c.key = k
                        \/ /\ bills[k].kind = "none"
                           /\ \E c \in charges : bills'[k] = Bill("period", c.base)
    BY <1>0, <1>6, MintedTyped DEF TablesTyped
  <2> HIDE DEF charges
  <2>4. \A k \in Keys : /\ bills'[k].credit = bills[k].credit
                        /\ bills[k].kind # "none" => bills'[k] = bills[k]
                        /\ bills'[k].kind = "none" => bills'[k] = bills[k]
                        /\ (\E c \in charges : c.key = k) => bills'[k].kind # "none" /\ bills'[k].credit = 0
    <3>1. \A base : Bill("period", base).kind = "period" /\ Bill("period", base).credit = 0
      BY DEF Bill
    <3>2. NoBill.credit = 0
      BY DEF NoBill, Bill
    <3> QED BY <1>0, <2>3, <3>1, <3>2 DEF MintedOnce
  <2>5. \A b \in Actors : \A c \in req[b].todo : c.key \in Keys
    BY <1>0 DEF TypeInv, TypeOK, Requests, Charges
  <2>6. TablesKept(g)
    <3>1. \A k \in Keys : bills'[k].kind = "none" => bills'[k] = NoBill
      BY <1>0, <2>4 DEF MintedOnce
    <3>2. \A b \in Actors : At(b, "minted") =>
            \A c \in req[b].todo : bills'[c.key].kind # "none" /\ bills'[c.key].credit = 0
      BY <1>0, <2>4, <2>5 DEF MintedOnce
    <3> QED BY <1>0, <2>2, <3>1, <3>2 DEF TablesKept, CreditsFresh
  <2>7. PICK r \in Requests : /\ Becomes(g, r) /\ r.todo = charges
                             /\ r.at = IF charges = {} THEN "idle" ELSE "minted"
    BY <2>1, <2>2, Goes DEF Stages
  <2>8. FitsIn(g, r)
    <3>1. ASSUME NEW c \in r.todo, NEW b \in Actors \ {g}, At(b, "minted"), NEW d \in req[b].todo
          PROVE  c.key # d.key
      BY <1>0, <2>1, <2>7, <3>1 DEF MintedOnce
    <3> QED BY <2>1, <2>4, <2>7, <3>1 DEF FitsIn
  <2>9. CreditsBalance'
    BY <1>0, <2>2, <2>4, BalanceKept
  <2> QED BY <1>0, <2>6, <2>7, <2>8, <2>9, CreditsMoved DEF CreditInv
<1>7. ASSUME NEW c \in req[g].todo, SpendCredits(g, c)
      PROVE  CreditInv'
  <2> DEFINE charges == req[g].todo \ {c}
  <2>1. charges \in SUBSET Charges /\ c \in Charges /\ c.key \in Keys
    BY <1>0 DEF Charges
  <2>2. made' = made /\ At(g, "minted") /\ Proceed(g, "minted", charges)
    BY <1>7 DEF SpendCredits, ledger
  <2>3. /\ Used(c) \in Nat /\ credits' \in [Rows -> Credits]
        /\ \A r \in Rows : /\ Given(r, c.base) \in Nat /\ Given(r, c.base) <= credits[r].left
                          /\ credits'[r].left = credits[r].left - Given(r, c.base)
                          /\ credits'[r].amount = credits[r].amount
                          /\ credits'[r].of = credits[r].of
        /\ bills' = IF Used(c) = 0 THEN bills ELSE [bills EXCEPT ![c.key].credit = Used(c)]
    BY <1>0, <1>7, <2>1, SpentTyped DEF TablesTyped
  <2>4. \A k \in Keys : /\ bills'[k].kind = bills[k].kind
                        /\ k # c.key => bills'[k] = bills[k]
    BY <1>0, <2>1, <2>3 DEF TablesTyped, Bills
  <2>5. bills[c.key].kind # "none" /\ bills[c.key].credit = 0
    BY <1>0, <2>2 DEF MintedOnce
  <2>6. bills'[c.key].credit = Used(c)
    BY <1>0, <2>1, <2>3, <2>5 DEF TablesTyped, Bills
  <2>7. \A r \in Rows : credits[r] = NoCredit => credits'[r] = NoCredit
    <3>1. ASSUME NEW r \in Rows, credits[r] = NoCredit
          PROVE  credits'[r] = NoCredit
      <4>1. credits'[r] \in Credits /\ NoCredit.left = 0
        BY <2>3 DEF NoCredit
      <4>2. credits'[r].left = 0 /\ credits'[r].amount = 0 /\ credits'[r].of = {}
        BY <2>3, <3>1, <4>1 DEF NoCredit
      <4> QED BY <4>1, <4>2 DEF Credits, NoCredit
    <3> QED BY <3>1
  <2>8. \A b \in Actors : \A d \in req[b].todo : d.key \in Keys
    BY <1>0 DEF TypeInv, TypeOK, Requests, Charges
  <2>9. TablesKept(g)
    <3>1. \A k \in Keys : bills'[k].kind = "none" => bills'[k] = NoBill
      BY <1>0, <2>4, <2>5 DEF MintedOnce
    <3>2. \A b \in Actors \ {g} : At(b, "minted") =>
            \A d \in req[b].todo : bills'[d.key].kind # "none" /\ bills'[d.key].credit = 0
      BY <1>0, <2>2, <2>4, <2>8 DEF MintedOnce
    <3>3. \A b \in Actors : Switching(b) => req[b].fresh \in Rows
      BY <1>0 DEF TypeInv, Underway, TablesTyped, Rows
    <3> QED BY <1>0, <2>2, <2>7, <3>1, <3>2, <3>3 DEF TablesKept, CreditsFresh
  <2> HIDE DEF charges
  <2>10. PICK r \in Requests : /\ Becomes(g, r) /\ r.todo = charges
                              /\ r.at = IF charges = {} THEN "idle" ELSE "minted"
    BY <2>1, <2>2, Goes DEF Stages
  <2>11. FitsIn(g, r)
    <3>1. ASSUME NEW d \in charges
          PROVE  /\ bills'[d.key].kind # "none" /\ bills'[d.key].credit = 0
                 /\ \A b \in Actors \ {g} : At(b, "minted") =>
                       \A e \in req[b].todo : d.key # e.key
      <4>1. d \in req[g].todo /\ d # c
        BY DEF charges
      <4>2. d.key # c.key
        BY <1>0, <4>1 DEF Underway
      <4> QED BY <1>0, <2>2, <2>4, <2>8, <4>1, <4>2 DEF MintedOnce
    <3> QED BY <2>10, <3>1 DEF FitsIn
  <2>12. CreditsBalance'
    <3> DEFINE f == [x \in Rows |-> credits[x].amount - credits[x].left]
               n == [x \in Rows |-> Given(x, c.base)]
               h == [x \in Rows |-> credits'[x].amount - credits'[x].left]
               b == [k \in Keys |-> bills[k].credit]
               a == [k \in Keys |-> bills'[k].credit]
    <3>1. \A x \in Rows : f[x] \in Int /\ n[x] \in Int /\ h[x] = f[x] + n[x]
      BY <1>0, <2>3 DEF TablesTyped, Credits
    <3>2. /\ \A k \in Keys : b[k] \in Int /\ a[k] \in Int
          /\ \A k \in Keys \ {c.key} : a[k] = b[k]
          /\ a[c.key] = Used(c) /\ b[c.key] = 0
      <4>1. \A k \in Keys : bills[k].credit \in Int
        BY <1>0 DEF TablesTyped, Bills
      <4> QED BY <2>1, <2>3, <2>4, <2>5, <2>6, <4>1
    <3>3. SumFunctionOnSet(f, Rows) = SumFunctionOnSet(b, Keys)
      BY <1>0, BalanceIs
    <3>4. SumFunctionOnSet(n, Rows) = Used(c)
      BY DEF Used, SumFunction
    <3>5. SumFunctionOnSet(h, Rows) = SumFunctionOnSet(a, Keys) => CreditsBalance'
      BY DEF CreditsBalance, SumFunction
    <3> HIDE DEF f, n, h, b, a
    <3>6. SumFunctionOnSet(h, Rows) = SumFunctionOnSet(f, Rows) + SumFunctionOnSet(n, Rows)
      BY <3>1, RowsFinite, SumPlus
    <3>7. SumFunctionOnSet(a, Keys) = SumFunctionOnSet(b, Keys) + Used(c) - 0
      BY <2>1, <3>2, KeysFinite, SumChanged
    <3>8. SumFunctionOnSet(b, Keys) \in Int
      BY <3>2, KeysFinite, SumType
    <3> QED BY <2>3, <3>3, <3>4, <3>5, <3>6, <3>7, <3>8
  <2> QED BY <1>0, <2>9, <2>10, <2>11, <2>12, CreditsMoved DEF CreditInv
<1> QED BY <1>1, <1>2, <1>4, <1>5, <1>6, <1>7 DEF RunOn

\* The rest neither gives a credit nor spends one.
LEMMA ElsewhereCredits ==
    ASSUME CreditInv, TypeInv', Elsewhere
    PROVE  CreditInv'
<1>0. /\ TypeInv /\ CreditsFresh /\ MintedOnce /\ CreditsBalance /\ TablesTyped /\ made \in Nat
  BY TypesSplit DEF CreditInv, TypeInv, TablesTyped, Rows
<1>1. ASSUME req' = req, made' >= made, made' \in Int, credits' = credits,
             \A k \in Keys : bills'[k].kind = bills[k].kind /\ bills'[k].credit = bills[k].credit,
             \A k \in Keys : bills[k].kind = "none" => bills'[k] = bills[k]
      PROVE  CreditInv'
  <2>1. CreditsFresh'
    <3>1. \A r \in Rows : r > made' => r > made
      BY <1>0, <1>1 DEF Rows
    <3> QED BY <1>0, <1>1, <3>1 DEF CreditsFresh, Switching, At
  <2>2. \A b \in Actors : \A c \in req[b].todo : c.key \in Keys
    BY <1>0 DEF TypeInv, TypeOK, Requests, Charges
  <2>3. MintedOnce'
    BY <1>0, <1>1, <2>2 DEF MintedOnce, At
  <2>4. CreditsBalance'
    BY <1>0, <1>1, BalanceKept
  <2> QED BY <2>1, <2>3, <2>4 DEF CreditInv
<1>2. CASE NextDay
  BY <1>0, <1>1, <1>2 DEF NextDay, ledger, money
<1>3. ASSUME NEW k \in Keys, Pay(k) \/ VoidBill(k)
      PROVE  CreditInv'
  <2>1. req' = req /\ made' = made /\ credits' = credits /\ bills[k].kind # "none"
        /\ \E s \in {"paid", "void"} : bills' = [bills EXCEPT ![k].status = s]
    BY <1>3 DEF Pay, VoidBill, ledger
  <2>2. \A l \in Keys : /\ bills'[l].kind = bills[l].kind /\ bills'[l].credit = bills[l].credit
                        /\ bills[l].kind = "none" => bills'[l] = bills[l]
    BY <1>0, <2>1 DEF TablesTyped, Bills
  <2> QED BY <1>0, <1>1, <2>1, <2>2
<1>4. ASSUME NEW price \in Prices, CreateRow(price)
      PROVE  CreditInv'
  BY <1>0, <1>1, <1>4 DEF CreateRow, money
<1>5. ASSUME NEW x \in Rows, Reopen(x)
      PROVE  CreditInv'
  BY <1>0, <1>1, <1>5 DEF Reopen, money
<1> QED BY <1>2, <1>3, <1>4, <1>5 DEF Elsewhere

LEMMA DieCredits ==
    ASSUME CreditInv, TypeInv', NEW a \in Actors, Die(a)
    PROVE  CreditInv'
<1>1. Becomes(a, NoRequest) /\ made' = made /\ made \in Nat /\ UNCHANGED money
  BY DEF Die, Done, ledger, CreditInv, TypeInv, TypeOK, Rows
<1>2. made' >= made
  BY <1>1
<1> QED BY <1>1, <1>2, Ended, CreditsAside

LEMMA StartCredits == Init => CreditInv
<1> SUFFICES ASSUME Init PROVE CreditInv
  OBVIOUS
<1>1. /\ bills = [k \in Keys |-> NoBill] /\ credits = [r \in Rows |-> NoCredit]
      /\ req = [a \in Actors |-> NoRequest]
  BY DEF Init
<1>2. CreditsFresh /\ MintedOnce
  BY <1>1, Ended DEF CreditsFresh, MintedOnce, Switching, At
<1>3. CreditsBalance
  <2> DEFINE f == [r \in Rows |-> credits[r].amount - credits[r].left]
             b == [k \in Keys |-> bills[k].credit]
  <2>1. (\A r \in Rows : f[r] = 0) /\ (\A k \in Keys : b[k] = 0)
    BY <1>1 DEF NoCredit, NoBill, Bill
  <2>2. SumFunctionOnSet(f, Rows) = SumFunctionOnSet(b, Keys) => CreditsBalance
    BY BalanceIs
  <2> HIDE DEF f, b
  <2> QED BY <2>1, <2>2, RowsFinite, KeysFinite, SumZero
<1> QED BY <1>2, <1>3, StartTyped DEF CreditInv

LEMMA StepCredits == CreditInv /\ [Next]_vars => CreditInv'
<1> SUFFICES ASSUME CreditInv, [Next]_vars PROVE CreditInv'
  OBVIOUS
<1>0. TypeInv'
  BY StepTyped DEF CreditInv
<1>1. CASE UNCHANGED vars
  <2>1. CreditsFresh' /\ MintedOnce' /\ CreditsBalance'
    BY <1>1 DEF vars, money, ledger, rest, CreditInv, CreditsFresh, MintedOnce, CreditsBalance,
                Switching, At
  <2> QED BY <1>0, <2>1 DEF CreditInv
<1> QED BY <1>0, <1>1, LaneCredits, DieCredits, RunCredits, ElsewhereCredits DEF Next, Actors

\* What credits have given is what bills have taken, sen for sen, whatever runs,
\* switches and payments overlap or die half-way: a credit is not spent twice, and a
\* run that writes its figure over a bill loses none that stood there.
THEOREM NoCreditIsLost == Spec => []CreditsBalance
<1>1. CreditInv => CreditsBalance
  BY DEF CreditInv
<1> QED BY <1>1, StartCredits, StepCredits, PTL DEF Spec

(***************************************************************************)
(* Bills, while requests do not overlap                                    *)
(***************************************************************************)

CalmRest == OneAtATime /\ BillsPlaced /\ OneBillPerPeriod /\ CreditBacked /\ \A a \in Actors : StillSo(a)

\* While one request moves the others have nothing under way.
LEMMA OthersIdle ==
    ASSUME CreditInv, NEW a \in Actors, NEW r \in Requests, Becomes(a, r), Idle(Actors \ {a})
    PROVE  /\ req'[a] = r /\ OneAtATime'
           /\ \A b \in Actors : b # a => At(b, "idle")'
           /\ \A b \in Actors : b # a => StillSo(b)'
           /\ \A b \in Actors : Switching(b)' => b = a
<1>1. /\ req'[a] = r /\ \A b \in Actors \ {a} : req'[b] = req[b]
  BY OnlyOneMoves DEF CreditInv, TypeInv, TypeOK
<1>2. \A b \in Actors : b # a => At(b, "idle")'
  BY <1>1 DEF Idle, At
<1>3. OneAtATime'
  BY <1>2 DEF OneAtATime
<1>4. \A b \in Actors : At(b, "idle")' => StillSo(b)' /\ ~Switching(b)'
  BY DEF At, StillSo, Switching
<1> QED BY <1>1, <1>2, <1>3, <1>4

\* What a's request may become while the bills and credits stay as they are.
ReadWell(r) ==
    /\ r.at # "minted"
    /\ r.at = "reading" => r.seen \subseteq 1 .. made
    /\ r.at \in {"planned", "checked"} =>
          \A c \in r.todo : c.key[1] <= made /\ c.key[2] <= PeriodOf(day)
    /\ r.at = "checked" => \A c \in r.todo : Billed(c.key[2]) = {}
    /\ r.at = "adjusting" => r.line # {} /\ r.line \subseteq Running
    /\ r.at \in {"pricing", "adjusting"} =>
          \A k \in Keys : bills[k].kind # "none" => k[1] # r.fresh

LEMMA CalmMoved ==
    ASSUME CreditInv, CalmRest, NEW a \in Actors, NEW r \in Requests, Becomes(a, r), Idle(Actors \ {a}),
           UNCHANGED money, made' >= made, made' \in Nat, day' = day, ReadWell(r)
    PROVE  CalmRest'
<1>1. /\ req'[a] = r /\ OneAtATime'
      /\ \A b \in Actors : b # a => StillSo(b)'
      /\ \A b \in Actors : Switching(b)' => b = a
  BY OthersIdle
<1>2. bills' = bills /\ credits' = credits /\ made \in Nat
      /\ BillsPlaced /\ OneBillPerPeriod /\ CreditBacked
  BY DEF money, CreditInv, TypeInv, TypeOK, Rows, CalmRest
<1>3. OneBillPerPeriod' /\ CreditBacked'
  BY <1>2 DEF OneBillPerPeriod, CreditBacked
<1>4. BillsPlaced'
  <2>1. \A k \in Keys : k[1] \in Nat
    BY DEF Keys, Rows
  <2>2. \A b \in Actors : Switching(b)' =>
           /\ req'[b].fresh = r.fresh /\ r.at \in {"pricing", "adjusting"}
    BY <1>1 DEF Switching, At
  <2>3. \A k \in Keys : bills'[k].kind # "none" =>
           /\ k[1] <= made' /\ k[2] <= PeriodOf(day')
           /\ \A b \in Actors : Switching(b)' => k[1] # req'[b].fresh
    BY <1>2, <2>1, <2>2 DEF BillsPlaced, ReadWell
  <2> QED BY <1>2, <2>3 DEF BillsPlaced
<1>5. StillSo(a)'
  <2>1. \A p : Billed(p)' = Billed(p)
    BY <1>2 DEF Billed
  <2>2. Running' = Running
    BY <1>2 DEF Running
  <2>3. At(a, "reading")' => req'[a].seen \subseteq 1 .. made'
    BY <1>1, <1>2 DEF At, ReadWell
  <2>4. At(a, "planned")' \/ At(a, "checked")' =>
          \A c \in req'[a].todo : c.key[1] <= made' /\ c.key[2] <= PeriodOf(day')
    <3>1. ASSUME NEW c \in r.todo
          PROVE  c.key[1] \in Nat
      BY DEF Requests, Charges, Keys, Rows
    <3> QED BY <1>1, <1>2, <3>1 DEF At, ReadWell
  <2>5. ~At(a, "minted")'
    BY <1>1 DEF At, ReadWell
  <2>6. At(a, "checked")' => \A c \in req'[a].todo : Billed(c.key[2])' = {}
    BY <1>1, <2>1 DEF At, ReadWell
  <2>7. At(a, "adjusting")' => req'[a].line # {} /\ req'[a].line \subseteq Running'
    BY <1>1, <2>2 DEF At, ReadWell
  <2> QED BY <2>3, <2>4, <2>5, <2>6, <2>7 DEF StillSo
<1> QED BY <1>1, <1>3, <1>4, <1>5 DEF CalmRest

\* A request that has ended, or has just begun, has read nothing of the bills.
LEMMA EndsWell ==
    ASSUME NEW r, r.at \in {"idle", "holding", "stamping"}
    PROVE  ReadWell(r)
BY DEF ReadWell

\* The lane's steps: an upgrade line is of a row that had no bill, a credit is given for
\* a bill that stands.
LEMMA LaneCalm ==
    ASSUME CreditInv, CreditInv', CalmRest, NEW q \in Admins, Idle(Actors \ {q}), Lane(q)
    PROVE  CalmRest'
<1>0. /\ q \in Actors /\ TypeInv /\ TablesTyped /\ Live \in SUBSET Rows /\ req[q] \in Requests
      /\ Underway(q) /\ made \in Nat /\ made' \in Nat /\ req[q].seen \in SUBSET Rows
      /\ BillsPlaced /\ OneBillPerPeriod /\ CreditBacked /\ StillSo(q)
  BY TypesSplit DEF CreditInv, TypeInv, TypeOK, Actors, Live, TablesTyped, Rows, Requests, CalmRest
<1>1. CASE TakeLane(q)
  <2> DEFINE r == Request("holding", Live, 0, {}, {})
  <2>1. r \in Requests /\ r.at = "holding"
    BY <1>0, Asked DEF Stages
  <2>2. Becomes(q, r) /\ made' >= made /\ UNCHANGED money /\ day' = day
    BY <1>0, <1>1 DEF TakeLane, ledger, rest
  <2> HIDE DEF r
  <2> QED BY <1>0, <2>1, <2>2, EndsWell, CalmMoved
<1>2. ASSUME NEW price \in Prices, Switch(q, price)
      PROVE  CalmRest'
  <2>1. made' = made + 1 /\ UNCHANGED money /\ day' = day
    BY <1>2 DEF Switch, rest
  <2>2. made' >= made
    BY <1>0, <2>1
  <2>3. CASE req[q].seen = {}
    <3>1. Becomes(q, NoRequest)
      BY <1>2, <2>3 DEF Switch
    <3> QED BY <1>0, <2>1, <2>2, <3>1, Ended, EndsWell, CalmMoved
  <2>4. CASE req[q].seen # {}
    <3> DEFINE r == Request("pricing", req[q].seen, made + 1, {}, {})
    <3>1. Becomes(q, r)
      BY <1>2, <2>4 DEF Switch
    <3>2. r \in Requests /\ r.at = "pricing" /\ r.fresh = made + 1
      <4>1. made + 1 \in Rows \cup {0}
        BY <2>1 DEF CreditInv, TypeInv, TypeOK
      <4> QED BY <1>0, <4>1, Asked DEF Stages
    <3> HIDE DEF r
    <3>3. \A k \in Keys : bills[k].kind # "none" => k[1] # r.fresh
      <4>1. \A k \in Keys : k[1] \in Nat
        BY DEF Keys, Rows
      <4> QED BY <1>0, <3>2, <4>1 DEF BillsPlaced
    <3>4. ReadWell(r)
      BY <3>2, <3>3 DEF ReadWell
    <3> QED BY <1>0, <2>1, <2>2, <3>1, <3>2, <3>4, CalmMoved
  <2> QED BY <2>3, <2>4
<1>3. ASSUME NEW x \in Rows, NEW door \in Doors, Close(q, x, door)
      PROVE  CalmRest'
  <2>1. Becomes(q, NoRequest) /\ made' >= made /\ UNCHANGED money /\ day' = day
    BY <1>0, <1>3 DEF Close, Done, rest
  <2> QED BY <1>0, <2>1, Ended, EndsWell, CalmMoved
<1>4. CASE RollBack(q)
  <2>1. Becomes(q, NoRequest) /\ made' >= made /\ UNCHANGED money /\ day' = day
    BY <1>0, <1>4 DEF RollBack, Done, ledger, rest
  <2> QED BY <1>0, <2>1, Ended, EndsWell, CalmMoved
<1>5. CASE FindBill(q)
  <2>1. made' >= made /\ UNCHANGED money /\ day' = day
    BY <1>0, <1>5 DEF FindBill, ledger, rest
  <2>2. CASE Done(q)
    BY <1>0, <2>1, <2>2, Ended, EndsWell, CalmMoved DEF Done
  <2>3. CASE ~Done(q)
    <3>1. PICK k \in Running :
             Becomes(q, Request("adjusting", req[q].seen, req[q].fresh, {k}, {}))
      BY <1>5, <2>3 DEF FindBill
    <3>2. Switching(q) /\ k \in Keys
      BY <1>5 DEF FindBill, Running, Switching
    <3> DEFINE r == Request("adjusting", req[q].seen, req[q].fresh, {k}, {})
    <3>3. r \in Requests /\ r.at = "adjusting" /\ r.fresh = req[q].fresh /\ r.line = {k}
      <4>1. /\ req[q].seen \in SUBSET Rows /\ req[q].fresh \in Rows \cup {0}
            /\ {k} \in SUBSET Keys /\ {} \in SUBSET Charges /\ "adjusting" \in Stages
        BY <1>0, <3>2 DEF Stages, Requests
      <4> QED BY <4>1, Asked
    <3> HIDE DEF r
    <3>4. Becomes(q, r)
      BY <3>1 DEF r
    <3>5. ReadWell(r)
      BY <1>0, <3>2, <3>3 DEF ReadWell, BillsPlaced
    <3> QED BY <1>0, <2>1, <3>3, <3>4, <3>5, CalmMoved
  <2> QED BY <2>2, <2>3
<1>6. CASE Adjust(q)
  <2>1. PICK k \in req[q].line : \E n \in Keys :
                 /\ k \in Keys /\ n = <<req[q].fresh, k[2]>>
                 /\ req[q].fresh \in 1 .. made /\ req[q].fresh \in Rows
                 /\ credits[req[q].fresh] = NoCredit /\ Difference(q) \in Int
                 /\ \/ /\ Difference(q) > 0 /\ credits' = credits
                       /\ \A l \in Keys : l # n => bills'[l] = bills[l]
                       /\ bills[n].kind = "none" => bills'[n] = Bill("upgrade", Difference(q))
                       /\ bills[n].kind # "none" => bills'[n] = bills[n]
                    \/ /\ Difference(q) <= 0 /\ bills' = bills
                       /\ \A r \in Rows : r # req[q].fresh => credits'[r] = credits[r]
                       /\ credits'[req[q].fresh]
                             = [of |-> {k}, amount |-> -Difference(q), left |-> -Difference(q)]
    BY <1>0, <1>6, AdjustIs
  <2>2. Becomes(q, NoRequest) /\ made' = made /\ day' = day /\ Switching(q) /\ At(q, "adjusting")
    BY <1>6, AdjustIs DEF ledger, rest, Adjust
  <2>3. /\ req'[q] = NoRequest /\ OneAtATime'
        /\ \A b \in Actors : b # q => StillSo(b)'
        /\ \A b \in Actors : Switching(b)' => b = q
    BY <1>0, <2>2, Ended, OthersIdle
  <2>4. StillSo(q)' /\ \A b \in Actors : ~Switching(b)'
    BY <2>3, Ended DEF StillSo, Switching, At
  <2>5. /\ k \in Keys /\ k[2] = PeriodOf(day) /\ bills[k].kind = "period" /\ bills[k].status # "void"
    BY <1>0, <2>1, <2>2 DEF StillSo, Running
  <2>6. CASE Difference(q) > 0
    <3>1. PICK n \in Keys :
            /\ n = <<req[q].fresh, k[2]>> /\ req[q].fresh <= made /\ credits' = credits
            /\ \A l \in Keys : l # n => bills'[l] = bills[l]
            /\ bills[n].kind = "none" => bills'[n] = Bill("upgrade", Difference(q))
      BY <2>1, <2>6
    <3>2. n[1] = req[q].fresh /\ n[2] = PeriodOf(day)
      BY <2>5, <3>1
    <3>3. bills[n].kind = "none" /\ bills'[n].kind = "upgrade" /\ bills'[n].status = "unpaid"
      BY <1>0, <2>2, <3>1, <3>2 DEF BillsPlaced, Bill
    <3>4. PeriodOf(day) \in Nat
      BY <1>0, PeriodDaysOf DEF TablesTyped, Days
    <3>5. BillsPlaced'
      <4>1. ASSUME NEW l \in Keys, bills'[l].kind # "none"
            PROVE  l[1] <= made' /\ l[2] <= PeriodOf(day')
        BY <1>0, <2>2, <3>1, <3>2, <3>4, <4>1 DEF BillsPlaced
      <4>2. ASSUME NEW r \in Rows, NEW l \in credits'[r].of
            PROVE  bills'[l].kind = "period"
        <5>1. l \in Keys /\ bills[l].kind = "period"
          BY <1>0, <3>1, <4>2 DEF BillsPlaced, TablesTyped, Credits
        <5> QED BY <3>1, <3>3, <5>1
      <4> QED BY <2>4, <4>1, <4>2 DEF BillsPlaced
    <3>6. OneBillPerPeriod'
      <4>1. \A l \in Keys : bills'[l].kind = "period" => bills[l].kind = "period"
        BY <3>1, <3>3
      <4> QED BY <1>0, <4>1 DEF OneBillPerPeriod
    <3>7. CreditBacked'
      <4>1. ASSUME NEW r \in Rows, NEW l \in credits'[r].of
            PROVE  bills'[l].status # "void"
        <5>1. l \in Keys /\ bills[l].status # "void"
          BY <1>0, <3>1, <4>1 DEF CreditBacked, TablesTyped, Credits
        <5> QED BY <3>1, <3>3, <5>1
      <4> QED BY <4>1 DEF CreditBacked
    <3> QED BY <2>3, <2>4, <3>5, <3>6, <3>7 DEF CalmRest
  <2>7. CASE ~(Difference(q) > 0)
    <3>1. /\ bills' = bills
          /\ \A r \in Rows : r # req[q].fresh => credits'[r] = credits[r]
          /\ credits'[req[q].fresh].of = {k}
      BY <2>1, <2>7
    <3>2. \A r \in Rows : \A l \in credits'[r].of : l = k \/ l \in credits[r].of
      BY <3>1
    <3>3. BillsPlaced'
      BY <1>0, <2>2, <2>4, <2>5, <3>1, <3>2 DEF BillsPlaced
    <3>4. OneBillPerPeriod' /\ CreditBacked'
      BY <1>0, <2>5, <3>1, <3>2 DEF OneBillPerPeriod, CreditBacked
    <3> QED BY <2>3, <2>4, <3>3, <3>4 DEF CalmRest
  <2> QED BY <2>6, <2>7
<1> QED BY <1>1, <1>2, <1>3, <1>4, <1>5, <1>6 DEF Lane, AdminOn

\* The steps of a run: it inserts only what its period had no bill of, and spends
\* credits on bills nobody has paid.
LEMMA RunCalm ==
    ASSUME CreditInv, CreditInv', CalmRest, NEW g \in Runs, Idle(Actors \ {g}),
           Approve(g) \/ ReadPlans(g) \/ RunOn(g)
    PROVE  CalmRest'
<1>0. /\ g \in Actors /\ TypeInv /\ MintedOnce /\ TablesTyped /\ req[g] \in Requests /\ Underway(g)
      /\ made \in Nat /\ made' \in Nat /\ 1 .. made \in SUBSET Rows
      /\ Waiting \in SUBSET Rows /\ Waiting \subseteq 1 .. made
      /\ req[g].seen \in SUBSET Rows /\ req[g].todo \in SUBSET Charges
      /\ BillsPlaced /\ OneBillPerPeriod /\ CreditBacked /\ StillSo(g)
  BY TypesSplit DEF CreditInv, TypeInv, TypeOK, Actors, Waiting, TablesTyped, Rows, Requests, CalmRest
<1>1. CASE Approve(g)
  <2> DEFINE r == Request("stamping", Waiting, 0, {}, {})
  <2>1. r \in Requests /\ r.at = "stamping"
    BY <1>0, Asked DEF Stages
  <2>2. Becomes(g, r) /\ made' >= made /\ UNCHANGED money /\ day' = day
    BY <1>0, <1>1 DEF Approve, ledger
  <2> HIDE DEF r
  <2> QED BY <1>0, <2>1, <2>2, EndsWell, CalmMoved
<1>2. CASE Stamp(g)
  <2> DEFINE stamped == req[g].seen \cap Waiting
             r == IF stamped = {} THEN NoRequest ELSE Request("reading", stamped, 0, {}, {})
  <2>1. r \in Requests /\ ReadWell(r)
    <3>1. CASE stamped = {}
      BY <3>1, Ended, EndsWell
    <3>2. CASE stamped # {}
      <4> DEFINE s == Request("reading", stamped, 0, {}, {})
      <4>1. s \in Requests /\ s.at = "reading" /\ s.seen = stamped
        BY <1>0, Asked DEF Stages
      <4>2. r = s /\ stamped \subseteq 1 .. made
        BY <1>0, <3>2
      <4> HIDE DEF s, r
      <4> QED BY <4>1, <4>2 DEF ReadWell
    <3> QED BY <3>1, <3>2
  <2>2. Becomes(g, r) /\ made' >= made /\ UNCHANGED money /\ day' = day
    BY <1>0, <1>2 DEF Stamp, Done, rest
  <2> HIDE DEF r
  <2> QED BY <1>0, <2>1, <2>2, CalmMoved
<1>3. ASSUME NEW stage \in {"planned", "checked"}, NEW charges \in SUBSET Charges,
             Proceed(g, stage, charges), made' = made, UNCHANGED money, day' = day,
             \A c \in charges : c.key[1] <= made /\ c.key[2] <= PeriodOf(day),
             stage = "checked" => \A c \in charges : Billed(c.key[2]) = {}
      PROVE  CalmRest'
  <2>1. PICK r \in Requests : /\ Becomes(g, r) /\ r.todo = charges
                             /\ r.at = IF charges = {} THEN "idle" ELSE stage
    BY <1>3, Goes DEF Stages
  <2>2. made' >= made /\ ReadWell(r)
    BY <1>0, <1>3, <2>1 DEF ReadWell
  <2> QED BY <1>0, <1>3, <2>1, <2>2, CalmMoved
<1>4. CASE ReadPlans(g)
  <2> DEFINE ids == IF At(g, "reading") THEN req[g].seen ELSE 1 .. made
  <2>1. ids \in SUBSET Rows /\ ids \subseteq 1 .. made
    BY <1>0 DEF StillSo
  <2>2. Proceed(g, "planned", Winners(ids))
    BY <1>4 DEF ReadPlans
  <2> HIDE DEF ids
  <2>3. Winners(ids) \subseteq Charges
        /\ \A c \in Winners(ids) : c.key[2] <= PeriodOf(day) /\ c.key[1] \in Held(ids)
    BY <1>0, <2>1, WinnersCharge DEF TablesTyped
  <2>4. \A c \in Winners(ids) : c.key[1] <= made
    <3>1. Held(ids) \subseteq 1 .. made
      BY <2>1 DEF Held
    <3>2. \A x \in 1 .. made : x <= made
      BY <1>0
    <3> QED BY <2>3, <3>1, <3>2
  <2>5. made' = made /\ UNCHANGED money /\ day' = day
    BY <1>4 DEF ReadPlans, ledger, rest
  <2> QED BY <1>3, <2>2, <2>3, <2>4, <2>5
<1>5. CASE ReadBills(g)
  <2> DEFINE charges == {c \in req[g].todo : Billed(c.key[2]) = {}}
  <2>1. charges \in SUBSET Charges /\ \A c \in charges : Billed(c.key[2]) = {}
    BY <1>0
  <2>2. made' = made /\ UNCHANGED money /\ day' = day /\ Proceed(g, "checked", charges)
    BY <1>5 DEF ReadBills, ledger, rest
  <2>3. \A c \in charges : c.key[1] <= made /\ c.key[2] <= PeriodOf(day)
    BY <1>0, <1>5 DEF ReadBills, StillSo
  <2> HIDE DEF charges
  <2> QED BY <1>3, <2>1, <2>2, <2>3
<1>6. CASE Mint(g)
  <2> DEFINE charges == {c \in req[g].todo : bills[c.key].kind = "none"}
  <2>1. /\ charges \in SUBSET Charges /\ charges \subseteq req[g].todo
        /\ \A c \in charges : c.key \in Keys /\ bills[c.key].kind = "none"
    BY <1>0 DEF Charges
  <2>2. made' = made /\ credits' = credits /\ day' = day /\ Proceed(g, "minted", charges)
        /\ At(g, "checked")
    BY <1>6 DEF Mint, ledger, rest
  <2>3. \A k \in Keys : \/ bills'[k] = bills[k]
                        \/ /\ bills[k].kind = "none"
                           /\ \E c \in charges : c.key = k /\ bills'[k] = Bill("period", c.base)
    BY <1>0, <1>6, MintedTyped DEF TablesTyped
  <2>3a. \A c \in charges : \E d \in charges : bills'[c.key] = Bill("period", d.base)
    BY <1>0, <1>6, <2>1, MintedTyped DEF TablesTyped
  <2>4. \A c \in charges : c.key[1] <= made /\ c.key[2] <= PeriodOf(day) /\ Billed(c.key[2]) = {}
    BY <1>0, <2>1, <2>2 DEF StillSo
  <2>5. \A c, d \in charges : c.key[2] = d.key[2] => c = d
    BY <1>0, <2>1 DEF Underway
  <2> HIDE DEF charges
  <2>6. \A base : Bill("period", base).kind = "period" /\ Bill("period", base).status = "unpaid"
    BY DEF Bill
  <2>7. PICK r \in Requests : /\ Becomes(g, r) /\ r.todo = charges
                             /\ r.at = IF charges = {} THEN "idle" ELSE "minted"
    BY <2>1, <2>2, Goes DEF Stages
  <2>8. /\ req'[g] = r /\ OneAtATime'
        /\ \A b \in Actors : b # g => StillSo(b)'
        /\ \A b \in Actors : Switching(b)' => b = g
    BY <1>0, <2>7, OthersIdle
  <2>9. StillSo(g)' /\ \A b \in Actors : ~Switching(b)'
    BY <2>3a, <2>6, <2>7, <2>8 DEF StillSo, Switching, At
  <2>10. BillsPlaced'
    <3>1. ASSUME NEW k \in Keys, bills'[k].kind # "none"
          PROVE  k[1] <= made' /\ k[2] <= PeriodOf(day')
      BY <1>0, <2>2, <2>3, <2>4, <3>1 DEF BillsPlaced
    <3>2. ASSUME NEW x \in Rows, NEW k \in credits'[x].of
          PROVE  bills'[k].kind = "period"
      <4>1. k \in Keys /\ bills[k].kind = "period"
        BY <1>0, <2>2, <3>2 DEF BillsPlaced, TablesTyped, Credits
      <4> QED BY <2>3, <4>1
    <3> QED BY <2>9, <3>1, <3>2 DEF BillsPlaced
  <2>11. OneBillPerPeriod'
    <3>1. ASSUME NEW k \in Keys, NEW l \in Keys, k[2] = l[2],
                 bills'[k].kind = "period", bills'[l].kind = "period"
          PROVE  k = l
      <4>1. CASE bills'[k] = bills[k] /\ bills'[l] = bills[l]
        BY <1>0, <3>1, <4>1 DEF OneBillPerPeriod
      <4>2. CASE bills'[k] = bills[k] /\ \E c \in charges : c.key = l
        <5>1. k \in Billed(l[2])
          BY <3>1, <4>2 DEF Billed
        <5> QED BY <2>4, <4>2, <5>1
      <4>3. CASE bills'[l] = bills[l] /\ \E c \in charges : c.key = k
        <5>1. l \in Billed(k[2])
          BY <3>1, <4>3 DEF Billed
        <5> QED BY <2>4, <4>3, <5>1
      <4>4. CASE (\E c \in charges : c.key = k) /\ (\E c \in charges : c.key = l)
        BY <2>5, <3>1, <4>4
      <4> QED BY <2>3, <4>1, <4>2, <4>3, <4>4
    <3> QED BY <3>1 DEF OneBillPerPeriod
  <2>12. CreditBacked'
    <3>1. ASSUME NEW x \in Rows, NEW k \in credits'[x].of
          PROVE  bills'[k].status # "void"
      <4>1. k \in Keys /\ bills[k].status # "void"
        BY <1>0, <2>2, <3>1 DEF CreditBacked, TablesTyped, Credits
      <4> QED BY <2>3, <2>6, <4>1
    <3> QED BY <3>1 DEF CreditBacked
  <2> QED BY <2>8, <2>9, <2>10, <2>11, <2>12 DEF CalmRest
<1>7. ASSUME NEW c \in req[g].todo, SpendCredits(g, c)
      PROVE  CalmRest'
  <2> DEFINE charges == req[g].todo \ {c}
  <2>1. /\ charges \in SUBSET Charges /\ charges \subseteq req[g].todo /\ c \in Charges
        /\ \A d \in charges : d.key \in Keys
    BY <1>0 DEF Charges
  <2>2. made' = made /\ day' = day /\ At(g, "minted") /\ Proceed(g, "minted", charges)
    BY <1>7 DEF SpendCredits, ledger, rest
  <2>3. /\ \A x \in Rows : credits'[x].of = credits[x].of
        /\ \A k \in Keys : bills'[k].kind = bills[k].kind /\ bills'[k].status = bills[k].status
    <3>1. /\ \A x \in Rows : credits'[x].of = credits[x].of
          /\ bills' = IF Used(c) = 0 THEN bills ELSE [bills EXCEPT ![c.key].credit = Used(c)]
      BY <1>0, <1>7, <2>1, SpentTyped DEF TablesTyped
    <3> QED BY <1>0, <3>1 DEF TablesTyped, Bills
  <2> HIDE DEF charges
  <2>4. PICK r \in Requests : /\ Becomes(g, r) /\ r.todo = charges
                             /\ r.at = IF charges = {} THEN "idle" ELSE "minted"
    BY <2>1, <2>2, Goes DEF Stages
  <2>5. /\ req'[g] = r /\ OneAtATime'
        /\ \A b \in Actors : b # g => StillSo(b)'
        /\ \A b \in Actors : Switching(b)' => b = g
    BY <1>0, <2>4, OthersIdle
  <2>6. StillSo(g)' /\ \A b \in Actors : ~Switching(b)'
    BY <1>0, <2>1, <2>2, <2>3, <2>4, <2>5 DEF StillSo, Switching, At
  <2>7. \A x \in Rows : \A k \in credits[x].of : k \in Keys
    BY <1>0 DEF TablesTyped, Credits
  <2>8. BillsPlaced'
    <3>1. \A k \in Keys : bills'[k].kind # "none" => k[1] <= made' /\ k[2] <= PeriodOf(day')
      BY <1>0, <2>2, <2>3 DEF BillsPlaced
    <3>2. \A x \in Rows : \A k \in credits'[x].of : bills'[k].kind = "period"
      BY <1>0, <2>3, <2>7 DEF BillsPlaced
    <3> QED BY <2>6, <3>1, <3>2 DEF BillsPlaced
  <2>9. OneBillPerPeriod'
    BY <1>0, <2>3 DEF OneBillPerPeriod
  <2>10. CreditBacked'
    BY <1>0, <2>3, <2>7 DEF CreditBacked
  <2> QED BY <2>5, <2>6, <2>8, <2>9, <2>10 DEF CalmRest
<1> QED BY <1>1, <1>2, <1>4, <1>5, <1>6, <1>7 DEF RunOn

\* The rest: a bill is voided only if no credit was given for it.
LEMMA ElsewhereCalm ==
    ASSUME CreditInv, CreditInv', CalmRest, Idle(Actors), Elsewhere
    PROVE  CalmRest'
<1>0. /\ TypeInv /\ TablesTyped /\ made \in Nat /\ made' \in Nat /\ day \in Nat /\ day' \in Nat
      /\ BillsPlaced /\ OneBillPerPeriod /\ CreditBacked
      /\ (\A k \in Keys : k[1] \in Nat /\ k[2] \in Nat)
      /\ \A x \in Rows : \A k \in credits[x].of : k \in Keys
  <2>1. PeriodOf(MaxDay) \in Nat
    BY PeriodDaysOf
  <2>2. TypeInv /\ TablesTyped /\ made \in Rows /\ made' \in Rows /\ day \in Days /\ day' \in Days
    BY TypesSplit DEF CreditInv, TypeInv, TypeOK
  <2>3. \A k \in Keys : k[1] \in Nat /\ k[2] \in Nat
    BY <2>1 DEF Keys, Periods, Rows
  <2>4. \A x \in Rows : \A k \in credits[x].of : k \in Keys
    BY <2>2 DEF TablesTyped, Credits
  <2> QED BY <2>2, <2>3, <2>4 DEF Rows, Days, CalmRest
<1>1. ASSUME req' = req, made' >= made, day' >= day, credits' = credits,
             \A k \in Keys : bills'[k].kind = bills[k].kind,
             \A k \in Keys : bills'[k].status = "void" => bills[k].status = "void"
                                 \/ \A x \in Rows : k \notin credits[x].of
      PROVE  CalmRest'
  <2>1. \A b \in Actors : At(b, "idle")'
    BY <1>1 DEF Idle, At
  <2>2. OneAtATime' /\ (\A b \in Actors : ~Switching(b)') /\ \A b \in Actors : StillSo(b)'
    BY <2>1 DEF OneAtATime, Switching, StillSo, At
  <2>3. PeriodOf(day) <= PeriodOf(day') /\ PeriodOf(day) \in Nat /\ PeriodOf(day') \in Nat
    BY <1>0, <1>1, PeriodsInOrder, PeriodDaysOf
  <2>4. BillsPlaced'
    <3>1. ASSUME NEW k \in Keys, bills'[k].kind # "none"
          PROVE  k[1] <= made' /\ k[2] <= PeriodOf(day')
      <4>1. k[1] <= made /\ k[2] <= PeriodOf(day)
        BY <1>0, <1>1, <3>1 DEF BillsPlaced
      <4> QED BY <1>0, <1>1, <2>3, <4>1
    <3> QED BY <1>0, <1>1, <2>2, <3>1 DEF BillsPlaced
  <2>5. OneBillPerPeriod' /\ CreditBacked'
    BY <1>0, <1>1 DEF OneBillPerPeriod, CreditBacked
  <2> QED BY <2>2, <2>4, <2>5 DEF CalmRest
<1>2. CASE NextDay
  BY <1>0, <1>1, <1>2 DEF NextDay, ledger, money
<1>3. ASSUME NEW k \in Keys, Pay(k)
      PROVE  CalmRest'
  <2>1. req' = req /\ made' = made /\ day' = day /\ credits' = credits
        /\ bills' = [bills EXCEPT ![k].status = "paid"]
    BY <1>3 DEF Pay, ledger, rest
  <2>2. \A l \in Keys : /\ bills'[l].kind = bills[l].kind
                        /\ bills'[l].status = "void" => bills[l].status = "void"
    BY <1>0, <2>1 DEF TablesTyped, Bills
  <2> QED BY <1>0, <1>1, <2>1, <2>2
<1>4. ASSUME NEW k \in Keys, VoidBill(k)
      PROVE  CalmRest'
  <2>1. req' = req /\ made' = made /\ day' = day /\ credits' = credits
        /\ bills' = [bills EXCEPT ![k].status = "void"] /\ \A x \in Rows : k \notin credits[x].of
    BY <1>4 DEF VoidBill, ledger, rest
  <2>2. \A l \in Keys : /\ bills'[l].kind = bills[l].kind
                        /\ l # k => bills'[l].status = bills[l].status
    BY <1>0, <2>1 DEF TablesTyped, Bills
  <2> QED BY <1>0, <1>1, <2>1, <2>2
<1>5. ASSUME NEW price \in Prices, CreateRow(price)
      PROVE  CalmRest'
  BY <1>0, <1>1, <1>5 DEF CreateRow, money
<1>6. ASSUME NEW x \in Rows, Reopen(x)
      PROVE  CalmRest'
  BY <1>0, <1>1, <1>6 DEF Reopen, money
<1> QED BY <1>2, <1>3, <1>4, <1>5, <1>6 DEF Elsewhere

\* With requests that do not overlap, each step is one of a request beside idle others,
\* or of nobody's.
LEMMA CalmNext ==
    ASSUME Calm, Next
    PROVE  \/ \E q \in Admins : Idle(Actors \ {q}) /\ Lane(q)
           \/ \E g \in Runs : Idle(Actors \ {g}) /\ (Approve(g) \/ ReadPlans(g) \/ RunOn(g))
           \/ Idle(Actors) /\ Elsewhere
BY DEF Next, Quiet, Die

LEMMA StartCalm == Init => CreditInv /\ CalmRest
<1> SUFFICES ASSUME Init PROVE CalmRest
  BY StartCredits
<1>1. /\ bills = [k \in Keys |-> NoBill] /\ credits = [r \in Rows |-> NoCredit]
      /\ req = [a \in Actors |-> NoRequest]
  BY DEF Init
<1>2. \A a \in Actors : At(a, "idle")
  BY <1>1, Ended DEF At
<1>3. OneAtATime /\ (\A a \in Actors : ~Switching(a)) /\ \A a \in Actors : StillSo(a)
  BY <1>2 DEF OneAtATime, Switching, StillSo, At
<1>4. BillsPlaced /\ OneBillPerPeriod /\ CreditBacked
  BY <1>1 DEF BillsPlaced, OneBillPerPeriod, CreditBacked, NoBill, Bill, NoCredit
<1> QED BY <1>3, <1>4 DEF CalmRest

LEMMA StepCalm == Calm => (CreditInv /\ CalmRest /\ [Next]_vars => (CreditInv /\ CalmRest)')
<1> SUFFICES ASSUME Calm, CreditInv, CalmRest, [Next]_vars PROVE CreditInv' /\ CalmRest'
  OBVIOUS
<1>1. CreditInv'
  BY StepCredits
<1>2. CASE UNCHANGED vars
  BY <1>1, <1>2 DEF vars, money, ledger, rest, CalmRest, OneAtATime, BillsPlaced, OneBillPerPeriod,
                    CreditBacked, StillSo, Switching, At, Billed, Running
<1>3. CASE Next
  BY <1>1, <1>3, CalmNext, LaneCalm, RunCalm, ElsewhereCalm
<1> QED BY <1>1, <1>2, <1>3

\* While requests do not overlap, what one has read is still so when it writes.
THEOREM CalmInvariance == Calm => (Spec => []CalmInv)
<1> SUFFICES ASSUME Calm PROVE Spec => []CalmInv
  OBVIOUS
<1>1. Init => CreditInv /\ CalmRest
  BY StartCalm
<1>2. CreditInv /\ CalmRest /\ [Next]_vars => (CreditInv /\ CalmRest)'
  BY StepCalm
<1>3. CreditInv /\ CalmRest <=> CalmInv
  BY DEF CalmInv, CalmRest
<1> QED BY <1>1, <1>2, <1>3, PTL DEF Spec

\* While requests of a lane do not overlap, a period is charged once, whatever plans were
\* held in it and however often it was switched, cancelled or run again.
THEOREM PeriodIsChargedOnce == Calm => (Spec => []OneBillPerPeriod)
<1> SUFFICES ASSUME Calm PROVE Spec => []OneBillPerPeriod
  OBVIOUS
<1>1. CalmInv => OneBillPerPeriod
  BY DEF CalmInv
<1>2. Spec => []CalmInv
  BY CalmInvariance
<1> QED BY <1>1, <1>2, PTL

\* ... and no credit is left that was given for a bill since voided.
THEOREM CreditStandsOnABill == Calm => (Spec => []CreditBacked)
<1> SUFFICES ASSUME Calm PROVE Spec => []CreditBacked
  OBVIOUS
<1>1. CalmInv => CreditBacked
  BY DEF CalmInv
<1>2. Spec => []CalmInv
  BY CalmInvariance
<1> QED BY <1>1, <1>2, PTL

\* Only a run that holds the bill it has just inserted writes a credit on it.
LEMMA FigureKept ==
    ASSUME Calm, CreditInv, CalmRest, Next
    PROVE  \A k \in Keys : bills[k].status # "unpaid" => bills'[k].credit = bills[k].credit
<1>0. /\ TypeInv /\ MintedOnce /\ TablesTyped /\ NoBill.status = "unpaid"
  BY TypesSplit DEF CreditInv, TypeInv, NoBill, Bill
<1>1. CASE bills' = bills
  BY <1>1
<1>2. ASSUME NEW q \in Admins, Lane(q), bills' # bills
      PROVE  \A k \in Keys : bills[k].status # "unpaid" => bills'[k].credit = bills[k].credit
  <2>1. Adjust(q)
    BY <1>2 DEF Lane, AdminOn, TakeLane, RollBack, FindBill, Switch, Close, money
  <2>2. PICK n \in Keys :
          /\ \A l \in Keys : l # n => bills'[l] = bills[l]
          /\ bills[n].kind # "none" => bills'[n] = bills[n]
    BY <1>2, <2>1, AdjustIs
  <2> QED BY <1>0, <2>2 DEF MintedOnce
<1>3. ASSUME NEW g \in Runs, Approve(g) \/ ReadPlans(g) \/ RunOn(g), bills' # bills
      PROVE  \A k \in Keys : bills[k].status # "unpaid" => bills'[k].credit = bills[k].credit
  <2>0. g \in Actors /\ req[g].todo \in SUBSET Charges /\ StillSo(g)
    BY <1>0 DEF Actors, TypeInv, TypeOK, Requests, CalmRest
  <2>1. Mint(g) \/ \E c \in req[g].todo : SpendCredits(g, c)
    BY <1>3 DEF RunOn, Approve, ReadPlans, Stamp, ReadBills, money
  <2>2. CASE Mint(g)
    <3>1. \A k \in Keys : bills'[k] = bills[k] \/ bills[k].kind = "none"
      BY <1>0, <2>0, <2>2, MintedTyped DEF TablesTyped
    <3> QED BY <1>0, <3>1 DEF MintedOnce
  <2>3. ASSUME NEW c \in req[g].todo, SpendCredits(g, c)
        PROVE  \A k \in Keys : bills[k].status # "unpaid" => bills'[k].credit = bills[k].credit
    <3>1. c \in Charges /\ bills[c.key].status = "unpaid"
      BY <2>0, <2>3 DEF StillSo, SpendCredits
    <3>2. bills' = IF Used(c) = 0 THEN bills ELSE [bills EXCEPT ![c.key].credit = Used(c)]
      BY <1>0, <2>3, <3>1, SpentTyped DEF TablesTyped
    <3>3. \A k \in Keys : k # c.key => bills'[k] = bills[k]
      BY <1>0, <3>2 DEF TablesTyped, Bills
    <3> QED BY <3>1, <3>3
  <2> QED BY <2>1, <2>2, <2>3
<1>4. ASSUME Elsewhere, bills' # bills
      PROVE  \A k \in Keys : bills[k].status # "unpaid" => bills'[k].credit = bills[k].credit
  <2>1. PICK k \in Keys : Pay(k) \/ VoidBill(k)
    BY <1>4 DEF Elsewhere, NextDay, CreateRow, Reopen, money
  <2>2. \E s \in {"paid", "void"} : bills' = [bills EXCEPT ![k].status = s]
    BY <2>1 DEF Pay, VoidBill
  <2> QED BY <1>0, <2>2 DEF TablesTyped, Bills
<1> QED BY <1>1, <1>2, <1>3, <1>4, CalmNext

\* While requests do not overlap, what a bill owes stands once it was paid or voided.
THEOREM PaidFigureStands == Calm => (Spec => FigureStands)
<1> SUFFICES ASSUME Calm PROVE Spec => FigureStands
  OBVIOUS
<1>1. CreditInv /\ CalmRest /\ [Next]_vars =>
        [\A k \in Keys : bills[k].status # "unpaid" => bills'[k].credit = bills[k].credit]_vars
  BY FigureKept
<1>2. CalmInv => CreditInv /\ CalmRest
  BY DEF CalmInv, CalmRest
<1>3. Spec => []CalmInv
  BY CalmInvariance
<1> QED BY <1>1, <1>2, <1>3, PTL DEF Spec, FigureStands

(***************************************************************************)
(* The differences of a switched period add up                             *)
(***************************************************************************)

Ordered == InARow /\ AddsUp /\ \A a \in Actors : OnTheLast(a)

\* The last plan to start by the end of a period is one of the lane's.
LEMMA LastPlanIs ==
    ASSUME TablesTyped, InARow, NEW p \in Nat
    PROVE  /\ LastPlan(p) \in 1 .. made /\ LastPlan(p) \in Rows
           /\ plan[LastPlan(p)].start <= Last(p)
           /\ \A r \in 1 .. made : plan[r].start <= Last(p) => LastPlan(p) >= r
<1> DEFINE T == {r \in 1 .. made : plan[r].start <= Last(p)}
<1>1. made \in Nat /\ made >= 1 /\ 1 .. made \subseteq Rows
  BY DEF TablesTyped, Rows
<1>2. plan[1].start <= Last(p)
  BY PeriodsApart DEF InARow
<1>3. T \in SUBSET Rows /\ T # {}
  BY <1>1, <1>2
<1> HIDE DEF T
<1>4. Max(T) \in T /\ \A r \in T : Max(T) >= r
  BY <1>3, NewestOf
<1>5. LastPlan(p) = Max(T)
  BY DEF LastPlan, T
<1> QED BY <1>1, <1>4, <1>5 DEF T

\* Today's is the newest.
LEMMA LastPlanToday ==
    ASSUME TablesTyped, InARow
    PROVE  LastPlan(PeriodOf(day)) = made
<1>1. /\ PeriodOf(day) \in Nat /\ day <= Last(PeriodOf(day)) /\ Last(PeriodOf(day)) \in Nat
      /\ day \in Nat /\ made \in 1 .. made /\ plan[made].start \in Nat
  <2>1. day \in Nat /\ made \in Rows /\ made \in 1 .. made
    BY DEF TablesTyped, Days, Rows
  <2>2. plan[made].start \in Nat
    BY <2>1 DEF TablesTyped, Plans, Days
  <2> QED BY <2>1, <2>2, PeriodDaysOf, PeriodsApart
<1>2. plan[made].start <= Last(PeriodOf(day))
  BY <1>1 DEF InARow
<1>3. LastPlan(PeriodOf(day)) \in 1 .. made /\ LastPlan(PeriodOf(day)) >= made
  BY <1>1, <1>2, LastPlanIs
<1> QED BY <1>1, <1>3 DEF TablesTyped, Rows

\* The rows that are there start when they did, at the price they had.
RowsStand == \A r \in 1 .. made : plan'[r].start = plan[r].start /\ plan'[r].price = plan[r].price

LEMMA LastPlanStands ==
    ASSUME RowsStand, made' = made, NEW p
    PROVE  LastPlan(p)' = LastPlan(p)
<1>1. {r \in 1 .. made' : plan'[r].start <= Last(p)} = {r \in 1 .. made : plan[r].start <= Last(p)}
  BY DEF RowsStand
<1> QED BY <1>1 DEF LastPlan

\* The newest row alone is live.
LEMMA OnlyLive ==
    ASSUME TablesTyped, LaneHeld, InARow
    PROVE  Live = {made} /\ Waiting \subseteq {made} /\ made \in Rows
<1>1. ASSUME NEW r \in Rows, r # made
      PROVE  r < made \/ ~plan[r].live
  BY <1>1 DEF LaneHeld, TablesTyped, Rows
<1>2. ASSUME NEW r \in Rows, r < made
      PROVE  plan[r].end # Never
  <2>1. r \in 1 .. made - 1
    BY <1>2 DEF TablesTyped, Rows
  <2>2. plan[r].end \in Days
    BY <2>1 DEF InARow
  <2> QED BY <2>2 DEF Days, Never
<1>3. Live = {made}
  BY <1>1, <1>2 DEF Live, InARow, TablesTyped
<1>4. Waiting \subseteq {made}
  <2>1. ASSUME NEW r \in Waiting, r # made
        PROVE  FALSE
    <3>1. r \in Rows /\ r < made /\ plan[r].end = Never
      BY <2>1 DEF Waiting, TablesTyped, Rows
    <3> QED BY <1>2, <3>1
  <2> QED BY <2>1
<1> QED BY <1>3, <1>4 DEF TablesTyped

\* A period some row has held is charged to the last plan to start in it or before.
LEMMA WinnerIsLast ==
    ASSUME TablesTyped, InARow, NEW ids \in SUBSET Rows, ids = 1 .. made \/ ids \subseteq {made},
           NEW c \in Winners(ids)
    PROVE  c.key[1] = LastPlan(c.key[2])
<1> DEFINE w == c.key[1]
           p == c.key[2]
           m == LastPlan(p)
<1>1. /\ p \in Nat /\ p <= PeriodOf(day) /\ w \in Held(ids) /\ HoldsPeriod(w, p)
      /\ \A r \in Held(ids) : HoldsPeriod(r, p) => w >= r
  BY WinnersCharge DEF TablesTyped
<1>2. /\ made \in Nat /\ made >= 1 /\ 1 .. made \subseteq Rows /\ day \in Nat /\ day <= MaxDay
      /\ \A r \in Rows : plan[r].start \in Nat /\ plan[r].start <= MaxDay /\ plan[r].end \in Nat
  BY DEF TablesTyped, Rows, Days, Never, Plans
<1> HIDE DEF p, w
<1>3. First(p) \in Nat /\ Last(p) \in Nat /\ First(p) <= Last(p) /\ First(p) <= day
  <2>1. First(PeriodOf(day)) <= day /\ PeriodOf(day) \in Nat
    BY <1>2, PeriodDaysOf
  <2> QED BY <1>1, <1>2, <2>1, PeriodsApart
<1>4. w \in ids /\ w \in 1 .. made /\ plan[w].start <= Last(p)
  BY <1>1, <1>2 DEF Held, HoldsPeriod
<1>5. /\ m \in 1 .. made /\ m \in Rows /\ plan[m].start <= Last(p)
      /\ \A r \in 1 .. made : plan[r].start <= Last(p) => m >= r
  BY <1>1, LastPlanIs
<1> HIDE DEF m
<1>6. m >= w
  BY <1>4, <1>5
<1>7. m \in ids
  <2>1. CASE ids = 1 .. made
    BY <1>5, <2>1
  <2>2. CASE ids \subseteq {made}
    <3>1. w = made
      BY <1>4, <2>2
    <3>2. m = made
      BY <1>2, <1>5, <1>6, <3>1
    <3> QED BY <1>4, <3>1, <3>2
  <2> QED BY <2>1, <2>2
<1>8. plan[m].end > Last(p) \/ plan[m].end = Never
  <2>1. CASE m = made
    BY <2>1 DEF InARow
  <2>2. CASE m < made
    <3>1. m \in 1 .. made - 1 /\ m + 1 \in 1 .. made /\ m + 1 > m
      BY <1>2, <1>5, <2>2
    <3>2. plan[m + 1].start <= plan[m].end
      BY <3>1 DEF InARow
    <3>3. ~(plan[m + 1].start <= Last(p))
      BY <1>2, <1>5, <3>1
    <3> QED BY <1>2, <1>3, <1>5, <3>1, <3>2, <3>3
  <2> QED BY <1>2, <1>5, <2>1, <2>2
<1>9. plan[m].end > plan[m].start /\ plan[m].end > First(p)
  <2>1. Never > plan[m].start /\ Never > First(p)
    BY <1>2, <1>3, <1>5 DEF Never
  <2> QED BY <1>2, <1>3, <1>5, <1>8, <2>1
<1>10. m \in Held(ids) /\ HoldsPeriod(m, p)
  BY <1>5, <1>7, <1>9 DEF Held, HoldsPeriod
<1>11. w >= m
  BY <1>1, <1>10
<1>12. w = m
  BY <1>2, <1>4, <1>5, <1>6, <1>11
<1> QED BY <1>12 DEF w, m, p

\* The lines beside a bill, less the credits given for it, change only with them.
LEMMA SwitchedSame ==
    ASSUME NEW k \in Keys,
           \A n \in Keys : n[2] = k[2] =>
              /\ bills'[n].kind = "none" <=> bills[n].kind = "none"
              /\ bills'[n].base = bills[n].base,
           \A r \in Rows :
              /\ k \in credits'[r].of <=> k \in credits[r].of
              /\ k \in credits[r].of => credits'[r].amount = credits[r].amount
    PROVE  Billed(k[2])' = Billed(k[2]) /\ Switched(k)' = Switched(k)
<1> DEFINE f == [n \in Keys |-> bills[n].base]
           g == [n \in Keys |-> bills'[n].base]
           c == [r \in Rows |-> IF k \in credits[r].of THEN credits[r].amount ELSE 0]
           d == [r \in Rows |-> IF k \in credits'[r].of THEN credits'[r].amount ELSE 0]
           S == Billed(k[2]) \ {k}
<1>1. Billed(k[2])' = Billed(k[2])
  BY DEF Billed
<1>2. \A n \in S : g[n] = f[n]
  BY DEF Billed
<1>3. \A r \in Rows : d[r] = c[r]
  OBVIOUS
<1>4. Switched(k) = SumFunctionOnSet(f, S) - SumFunctionOnSet(c, Rows)
  BY DEF Switched, SumFunction
<1>5. Switched(k)' = SumFunctionOnSet(g, S) - SumFunctionOnSet(d, Rows)
  BY <1>1 DEF Switched, SumFunction
<1>6. IsFiniteSet(S)
  BY KeysFinite, FS_Subset DEF Billed
<1> HIDE DEF f, g, c, d, S
<1>7. SumFunctionOnSet(g, S) = SumFunctionOnSet(f, S)
  BY <1>2, <1>6, SumSame
<1>8. SumFunctionOnSet(d, Rows) = SumFunctionOnSet(c, Rows)
  BY <1>3, RowsFinite, SumSame
<1> QED BY <1>1, <1>4, <1>5, <1>7, <1>8

\* What a's request may become on the newest row.
LastWell(r) ==
    /\ r.at = "holding" => r.seen = {made'}
    /\ r.at \in {"stamping", "reading"} => r.seen \subseteq {made'}
    /\ r.at \in {"pricing", "adjusting"} => r.fresh = made' /\ r.seen = {made' - 1}
    /\ r.at \in {"planned", "checked"} => \A c \in r.todo : c.key[1] = LastPlan(c.key[2])'

LEMMA LastMoved ==
    ASSUME CreditInv, NEW a \in Actors, NEW r \in Requests, Becomes(a, r), Idle(Actors \ {a}), LastWell(r)
    PROVE  \A b \in Actors : OnTheLast(b)'
<1>1. req'[a] = r /\ \A b \in Actors : b # a => At(b, "idle")'
  BY OthersIdle
<1>2. OnTheLast(a)'
  BY <1>1 DEF OnTheLast, Switching, At, LastWell
<1>3. \A b \in Actors : b # a => OnTheLast(b)'
  BY <1>1 DEF OnTheLast, Switching, At
<1> QED BY <1>2, <1>3

\* Nobody's switch is on its way to the bills, before or after: what a period comes to
\* is its last plan.
LEMMA NothingPending ==
    ASSUME TablesTyped, InARow, RowsStand, made' = made,
           \A b \in Actors : ~Switching(b), \A b \in Actors : ~Switching(b)', NEW p \in Nat
    PROVE  plan'[ChargedPlan(p)'].price = plan[ChargedPlan(p)].price
<1>1. ChargedPlan(p) = LastPlan(p) /\ ChargedPlan(p)' = LastPlan(p)'
  BY DEF ChargedPlan
<1>2. LastPlan(p)' = LastPlan(p) /\ LastPlan(p) \in 1 .. made
  BY LastPlanStands, LastPlanIs
<1> QED BY <1>1, <1>2 DEF RowsStand

\* Bills and lines keep their figures, and no bill that was void stands again.
BillsStand ==
    /\ \A n \in Keys : /\ bills'[n].kind = bills[n].kind /\ bills'[n].base = bills[n].base
                       /\ bills[n].status = "void" => bills'[n].status = "void"
    /\ \A r \in Rows : credits'[r].of = credits[r].of /\ credits'[r].amount = credits[r].amount

LEMMA AddsUpSame ==
    ASSUME TablesTyped, BillsPlaced, AddsUp, BillsStand, RowsStand,
           \A k \in Keys : bills[k].kind = "period" =>
               plan'[ChargedPlan(k[2])'].price = plan[ChargedPlan(k[2])].price
                 \/ \E n \in Billed(k[2]) : bills[n].status = "void"
    PROVE  AddsUp'
<1>1. ASSUME NEW k \in Keys, bills'[k].kind = "period",
             \A n \in Billed(k[2])' : bills'[n].status # "void"
      PROVE  Switched(k)' = plan'[ChargedPlan(k[2])'].price - plan'[k[1]].price
  <2>1. bills[k].kind = "period" /\ Billed(k[2])' = Billed(k[2]) /\ Switched(k)' = Switched(k)
    BY <1>1, SwitchedSame DEF BillsStand
  <2>2. \A n \in Billed(k[2]) : n \in Keys /\ bills[n].status # "void"
    BY <1>1, <2>1 DEF BillsStand, Billed
  <2>3. Switched(k) = plan[ChargedPlan(k[2])].price - plan[k[1]].price
    BY <2>1, <2>2 DEF AddsUp
  <2>4. k[1] \in 1 .. made
    BY <2>1 DEF BillsPlaced, Keys, TablesTyped, Rows
  <2> QED BY <2>1, <2>2, <2>3, <2>4 DEF RowsStand
<1> QED BY <1>1 DEF AddsUp

LEMMA MoneyStands ==
    ASSUME UNCHANGED money
    PROVE  BillsStand
BY DEF money, BillsStand

\* A step of a request that leaves the money alone and is of no switch.
LEMMA OrderAside ==
    ASSUME CreditInv, BillsPlaced, Ordered, NEW a \in Actors, NEW r \in Requests, Becomes(a, r),
           Idle(Actors \ {a}), ~Switching(a), r.at \notin {"pricing", "adjusting"}, LastWell(r),
           BillsStand, made' = made, RowsStand, InARow'
    PROVE  Ordered'
<1>1. TablesTyped /\ InARow /\ AddsUp
  BY TypesSplit DEF CreditInv, TypeInv, Ordered
<1>2. \A b \in Actors : ~Switching(b)
  BY DEF Idle, Switching, At
<1>3. req'[a] = r /\ \A b \in Actors : Switching(b)' => b = a
  BY OthersIdle
<1>4. \A b \in Actors : ~Switching(b)'
  BY <1>3 DEF Switching, At
<1>5. \A k \in Keys : k[2] \in Nat
  BY PeriodDaysOf DEF Keys, Periods
<1>6. \A k \in Keys : plan'[ChargedPlan(k[2])'].price = plan[ChargedPlan(k[2])].price
  BY <1>1, <1>2, <1>4, <1>5, NothingPending
<1>7. AddsUp'
  BY <1>1, <1>6, AddsUpSame
<1>8. \A b \in Actors : OnTheLast(b)'
  BY LastMoved
<1> QED BY <1>7, <1>8 DEF Ordered

\* The rows as they are keep their order as the days pass.
LEMMA RowsUntouched ==
    ASSUME TablesTyped, InARow, plan' = plan, made' = made
    PROVE  RowsStand /\ (day' = day => InARow')
BY DEF RowsStand, InARow

\* A switch opens the next row on the day it closes the last one, and has yet to add its
\* difference to the period running today.
LEMMA SwitchOrder ==
    ASSUME CreditInv, CreditInv', BillsPlaced, Ordered, NEW q \in Admins, Idle(Actors \ {q}),
           NEW price \in Prices, Switch(q, price)
    PROVE  Ordered'
<1>0. /\ q \in Actors /\ TablesTyped /\ InARow /\ AddsUp /\ req[q] \in Requests /\ OnTheLast(q)
      /\ made \in Rows /\ made' \in Rows /\ made \in Nat /\ made >= 1 /\ day \in Days /\ day \in Nat
      /\ req[q].seen \in SUBSET Rows
  BY TypesSplit DEF CreditInv, TypeInv, TypeOK, Actors, TablesTyped, Rows, Days, Requests, Ordered
<1>1. /\ made' = made + 1 /\ day' = day /\ UNCHANGED money /\ req[q].seen = {made}
      /\ Becomes(q, Request("pricing", {made}, made + 1, {}, {}))
      /\ plan' = [r \in Rows |->
            IF r = made + 1 THEN Opening(price, day, Inherited({made}))
            ELSE IF r \in {made} THEN [plan[r] EXCEPT !.end = day, !.live = FALSE]
            ELSE plan[r]]
  <2>1. At(q, "holding") /\ req[q].seen = {made}
    BY <1>0 DEF Switch, OnTheLast
  <2> QED BY <2>1 DEF Switch, rest
<1>1a. made' = made + 1 /\ day' = day
  BY <1>1
<1>2. plan[made] \in Plans /\ \A r \in Rows : plan[r] \in Plans /\ plan[r].start \in Nat
  BY <1>0 DEF TablesTyped, Plans, Days
<1>3. /\ plan'[made + 1].live /\ plan'[made + 1].end = Never /\ plan'[made + 1].start = day
      /\ plan'[made].end = day
      /\ \A r \in 1 .. made : plan'[r].start = plan[r].start /\ plan'[r].price = plan[r].price
      /\ \A r \in 1 .. made - 1 : plan'[r].end = plan[r].end
  <2>1. made + 1 \in Rows /\ 1 .. made \subseteq Rows /\ made + 1 \notin 1 .. made
    BY <1>0, <1>1a DEF Rows
  <2>2. plan'[made + 1] = Opening(price, day, Inherited({made}))
    BY <1>1, <2>1
  <2>3. plan'[made] = [plan[made] EXCEPT !.end = day, !.live = FALSE]
    <3>1. made # made + 1 /\ made \in {made}
      BY <1>0
    <3> QED BY <1>0, <1>1, <3>1
  <2>4. \A r \in 1 .. made - 1 : plan'[r] = plan[r]
    <3>1. \A r \in 1 .. made - 1 : r \in Rows /\ r # made + 1 /\ r \notin {made}
      BY <1>0, <2>1
    <3> QED BY <1>1, <3>1
  <2>5. \A r \in 1 .. made : r = made \/ r \in 1 .. made - 1
    BY <1>0
  <2>6. /\ plan'[made].end = day /\ plan'[made].start = plan[made].start
        /\ plan'[made].price = plan[made].price
    BY <1>2, <2>3 DEF Plans
  <2> QED BY <2>2, <2>4, <2>5, <2>6 DEF Opening
<1>4. InARow'
  <2>1. plan'[1].start = 0
    BY <1>0, <1>3 DEF InARow
  <2>2. \A r \in 1 .. made' : plan'[r].start <= day'
    <3>1. \A r \in 1 .. made' : r \in 1 .. made \/ r = made + 1
      BY <1>0, <1>1a
    <3>2. \A r \in 1 .. made : plan[r].start <= day
      BY <1>0 DEF InARow
    <3> QED BY <1>0, <1>1a, <1>3, <3>1, <3>2
  <2>3. ASSUME NEW r \in 1 .. made' - 1
        PROVE  plan'[r].end \in Days /\ plan'[r + 1].start <= plan'[r].end
    <3>1. CASE r = made
      BY <1>0, <1>3, <3>1
    <3>2. CASE r # made
      <4>1. r \in 1 .. made - 1 /\ r + 1 \in 1 .. made
        BY <1>0, <1>1a, <3>2
      <4>2. plan[r].end \in Days /\ plan[r + 1].start <= plan[r].end
        BY <1>0, <4>1 DEF InARow
      <4> QED BY <1>3, <4>1, <4>2
    <3> QED BY <3>1, <3>2
  <2> QED BY <1>1, <1>3, <2>1, <2>2, <2>3 DEF InARow
<1>5. PICK r \in Requests : /\ Becomes(q, r) /\ r.at = "pricing" /\ r.fresh = made'
                           /\ r.seen = {made' - 1}
  <2>1. made + 1 \in Rows \cup {0} /\ {made} \in SUBSET Rows
    BY <1>0, <1>1
  <2>2. LET s == Request("pricing", {made}, made + 1, {}, {}) IN
        s \in Requests /\ s.at = "pricing" /\ s.fresh = made + 1 /\ s.seen = {made}
    BY <2>1, Asked DEF Stages
  <2>3. made' - 1 = made
    BY <1>0, <1>1a
  <2> QED BY <1>1, <2>2, <2>3
<1>6. \A b \in Actors : OnTheLast(b)'
  BY <1>0, <1>5, LastMoved DEF LastWell
<1>7. Switching(q)'
  <2>1. req'[q] = r
    BY <1>0, <1>5, OthersIdle
  <2> QED BY <1>5, <2>1 DEF Switching, At
<1>8. \A b \in Actors : ~Switching(b)
  <2>1. At(q, "holding")
    BY DEF Switch
  <2> QED BY <2>1 DEF Idle, Switching, At
<1>9. ASSUME NEW k \in Keys, bills[k].kind = "period"
      PROVE  plan'[ChargedPlan(k[2])'].price = plan[ChargedPlan(k[2])].price
  <2>1. k[2] \in Nat /\ k[2] <= PeriodOf(day) /\ PeriodOf(day) \in Nat
        /\ ChargedPlan(k[2]) = LastPlan(k[2])
    BY <1>0, <1>8, <1>9, PeriodDaysOf DEF BillsPlaced, Keys, Periods, ChargedPlan
  <2>2. CASE k[2] = PeriodOf(day)
    <3>1. ChargedPlan(k[2]) = made
      BY <1>0, <2>1, <2>2, LastPlanToday
    <3>2. ChargedPlan(k[2])' = made
      <4>1. k[2] = PeriodOf(day') /\ \E b \in Actors : Switching(b)'
        BY <1>0, <1>1a, <1>7, <2>2
      <4>2. ChargedPlan(k[2])' = made' - 1
        BY <4>1 DEF ChargedPlan
      <4> QED BY <1>0, <1>1a, <4>2
    <3> QED BY <1>0, <1>3, <3>1, <3>2
  <2>3. CASE k[2] < PeriodOf(day)
    <3>1. Last(k[2]) < day /\ Last(k[2]) \in Nat
      <4>1. First(PeriodOf(day)) <= day /\ Last(k[2]) < First(PeriodOf(day))
            /\ Last(k[2]) \in Nat /\ First(PeriodOf(day)) \in Nat
        BY <1>0, <2>1, <2>3, PeriodDaysOf, PeriodsApart
      <4> QED BY <1>0, <4>1
    <3>2. {x \in 1 .. made' : plan'[x].start <= Last(k[2])}
             = {x \in 1 .. made : plan[x].start <= Last(k[2])}
      <4>1. ~(plan'[made + 1].start <= Last(k[2]))
        BY <1>0, <1>3, <3>1
      <4>2. \A x : x \in 1 .. made' <=> x \in 1 .. made \/ x = made + 1
        BY <1>0, <1>1a
      <4> QED BY <1>3, <4>1, <4>2
    <3>3. LastPlan(k[2])' = LastPlan(k[2])
      BY <3>2 DEF LastPlan
    <3>4. LastPlan(k[2]) \in 1 .. made
      BY <1>0, <2>1, LastPlanIs
    <3>5. ChargedPlan(k[2])' = LastPlan(k[2])'
      <4>1. k[2] # PeriodOf(day')
        BY <1>1a, <2>1, <2>3
      <4> QED BY <4>1 DEF ChargedPlan
    <3> QED BY <1>3, <2>1, <3>3, <3>4, <3>5
  <2> QED BY <2>1, <2>2, <2>3
<1>10. AddsUp'
  BY <1>0, <1>1, <1>3, <1>9, MoneyStands, AddsUpSame DEF RowsStand
<1> QED BY <1>4, <1>6, <1>10 DEF Ordered

\* The difference of a switch is that of the newest row to the one before it.
LEMMA DifferenceIs ==
    ASSUME TablesTyped, NEW q \in Actors, req[q] \in Requests, Switching(q), OnTheLast(q)
    PROVE  /\ Difference(q) = plan[made].price - plan[made - 1].price
           /\ made \in Rows /\ made - 1 \in Rows
           /\ plan[made].price \in Nat /\ plan[made - 1].price \in Nat
<1>1. req[q].fresh = made /\ req[q].seen = {made - 1} /\ made \in Rows /\ made - 1 \in Rows
  BY DEF OnTheLast, Requests, TablesTyped
<1>2. plan[made].price \in Nat /\ plan[made - 1].price \in Nat
  BY <1>1, PricesAreNat DEF TablesTyped, Plans
<1>3. {plan[r].price : r \in {made - 1}} = {plan[made - 1].price}
  OBVIOUS
<1>4. Max({plan[made - 1].price}) = plan[made - 1].price
  <2> DEFINE x == plan[made - 1].price
             T == {x}
  <2>1. T \subseteq Int /\ x \in T /\ \A y \in T : x >= y
    BY <1>2
  <2> HIDE DEF x, T
  <2>2. Max(T) = x
    BY <2>1, MaxIs
  <2> QED BY <2>2 DEF x, T
<1> QED BY <1>1, <1>2, <1>3, <1>4 DEF Difference, Dearest

\* Once a switch has ended, the period running today comes to the newest row.
LEMMA SwitchEnds ==
    ASSUME TablesTyped, InARow, NEW q \in Actors, Switching(q), plan' = plan, made' = made, day' = day,
           \A b \in Actors : ~Switching(b)', NEW p \in Nat
    PROVE  /\ p # PeriodOf(day) => /\ ChargedPlan(p) = LastPlan(p) /\ ChargedPlan(p)' = LastPlan(p)
                                   /\ LastPlan(p) \in Rows
           /\ p = PeriodOf(day) => ChargedPlan(p) = made - 1 /\ ChargedPlan(p)' = made
<1>1. LastPlan(p)' = LastPlan(p) /\ LastPlan(p) \in Rows
  BY LastPlanIs DEF LastPlan
<1>2. p = PeriodOf(day) => LastPlan(p) = made
  BY LastPlanToday
<1> QED BY <1>1, <1>2 DEF ChargedPlan

\* Nothing to adjust: the plans cost the same, or no bill of the period stands.
LEMMA FindBillOrder ==
    ASSUME CreditInv, CreditInv', BillsPlaced, Ordered, NEW q \in Admins, Idle(Actors \ {q}), FindBill(q)
    PROVE  Ordered'
<1>0. /\ q \in Actors /\ TablesTyped /\ InARow /\ AddsUp /\ req[q] \in Requests /\ OnTheLast(q)
      /\ Switching(q) /\ UNCHANGED money /\ plan' = plan /\ made' = made /\ day' = day
  BY TypesSplit DEF CreditInv, TypeInv, TypeOK, Actors, Ordered, FindBill, Switching, ledger, rest
<1>1. RowsStand /\ InARow' /\ BillsStand
  BY <1>0, RowsUntouched, MoneyStands
<1>2. CASE Difference(q) = 0 \/ Running = {}
  <2>1. Becomes(q, NoRequest)
    BY <1>2 DEF FindBill, Done
  <2>2. req'[q] = NoRequest /\ \A b \in Actors : Switching(b)' => b = q
    BY <1>0, <2>1, Ended, OthersIdle
  <2>3. \A b \in Actors : ~Switching(b)'
    BY <2>2, Ended DEF Switching, At
  <2>4. ASSUME NEW k \in Keys, bills[k].kind = "period"
        PROVE  \/ plan'[ChargedPlan(k[2])'].price = plan[ChargedPlan(k[2])].price
               \/ \E n \in Billed(k[2]) : bills[n].status = "void"
    <3>1. k[2] \in Nat
      BY PeriodDaysOf DEF Keys, Periods
    <3>2. CASE k[2] # PeriodOf(day)
      BY <1>0, <2>3, <3>1, <3>2, SwitchEnds
    <3>3. CASE k[2] = PeriodOf(day) /\ Difference(q) = 0
      <4>1. ChargedPlan(k[2]) = made - 1 /\ ChargedPlan(k[2])' = made
        BY <1>0, <2>3, <3>1, <3>3, SwitchEnds
      <4>2. plan[made].price = plan[made - 1].price
        BY <1>0, <3>3, DifferenceIs
      <4> QED BY <1>0, <4>1, <4>2
    <3>4. CASE k[2] = PeriodOf(day) /\ Running = {}
      <4>1. k \notin Running
        BY <3>4
      <4>2. bills[k].status = "void" /\ k \in Billed(k[2])
        BY <2>4, <3>4, <4>1 DEF Running, Billed
      <4> QED BY <4>2
    <3> QED BY <1>2, <3>2, <3>3, <3>4
  <2>5. AddsUp'
    BY <1>0, <1>1, <2>4, AddsUpSame
  <2>6. \A b \in Actors : OnTheLast(b)'
    BY <1>0, <2>1, Ended, LastMoved DEF LastWell
  <2> QED BY <1>1, <2>5, <2>6 DEF Ordered
<1>3. CASE ~(Difference(q) = 0 \/ Running = {})
  <2>1. PICK k \in Running : Becomes(q, Request("adjusting", req[q].seen, req[q].fresh, {k}, {}))
    BY <1>3 DEF FindBill
  <2> DEFINE r == Request("adjusting", req[q].seen, req[q].fresh, {k}, {})
  <2>2. r \in Requests /\ r.at = "adjusting" /\ r.fresh = req[q].fresh /\ r.seen = req[q].seen
    <3>1. /\ req[q].seen \in SUBSET Rows /\ req[q].fresh \in Rows \cup {0}
          /\ {k} \in SUBSET Keys /\ {} \in SUBSET Charges /\ "adjusting" \in Stages
      BY <1>0, <2>1 DEF Stages, Requests, Running
    <3> QED BY <3>1, Asked
  <2> HIDE DEF r
  <2>3. Becomes(q, r)
    BY <2>1 DEF r
  <2>4. LastWell(r)
    BY <1>0, <2>2 DEF LastWell, OnTheLast
  <2>5. \A b \in Actors : OnTheLast(b)'
    BY <1>0, <2>2, <2>3, <2>4, LastMoved
  <2>6. Switching(q)'
    <3>1. req'[q] = r
      BY <1>0, <2>2, <2>3, OthersIdle
    <3> QED BY <2>2, <3>1 DEF Switching, At
  <2>7. \A p : ChargedPlan(p)' = ChargedPlan(p)
    BY <1>0, <2>6 DEF ChargedPlan, LastPlan
  <2>8. AddsUp'
    BY <1>0, <1>1, <2>7, AddsUpSame
  <2> QED BY <1>1, <2>5, <2>8 DEF Ordered
<1> QED BY <1>2, <1>3

\* What a period has changed is a number of sen.
LEMMA SwitchedIsInt ==
    ASSUME TablesTyped, NEW k \in Keys
    PROVE  Switched(k) \in Int
<1> DEFINE f == [n \in Keys |-> bills[n].base]
           c == [r \in Rows |-> IF k \in credits[r].of THEN credits[r].amount ELSE 0]
           S == Billed(k[2]) \ {k}
<1>1. (\A n \in S : f[n] \in Int) /\ (\A r \in Rows : c[r] \in Int)
  BY DEF TablesTyped, Bills, Credits, Billed
<1>2. Switched(k) = SumFunctionOnSet(f, S) - SumFunctionOnSet(c, Rows)
  BY DEF Switched, SumFunction
<1>3. IsFiniteSet(S)
  BY KeysFinite, FS_Subset DEF Billed
<1> HIDE DEF f, c, S
<1>4. SumFunctionOnSet(f, S) \in Int /\ SumFunctionOnSet(c, Rows) \in Int
  BY <1>1, <1>3, RowsFinite, SumType
<1> QED BY <1>2, <1>4

\* A line put beside a bill adds its figure.
LEMMA LineAdded ==
    ASSUME TablesTyped, bills' \in [Keys -> Bills], NEW l \in Keys, NEW n \in Keys, n # l, n[2] = l[2],
           bills[n].kind = "none", bills'[n].kind # "none", credits' = credits,
           \A m \in Keys : m # n => bills'[m] = bills[m]
    PROVE  /\ Billed(l[2]) \subseteq Billed(l[2])'
           /\ Switched(l)' = Switched(l) + bills'[n].base
<1> DEFINE f == [m \in Keys |-> bills[m].base]
           g == [m \in Keys |-> bills'[m].base]
           c == [r \in Rows |-> IF l \in credits[r].of THEN credits[r].amount ELSE 0]
           S == Billed(l[2]) \ {l}
<1>1. Billed(l[2])' = Billed(l[2]) \cup {n} /\ n \notin Billed(l[2])
  BY DEF Billed
<1>2. Billed(l[2])' \ {l} = S \cup {n} /\ n \notin S
  BY <1>1
<1>3. /\ \A m \in S : g[m] = f[m]
      /\ \A m \in S \cup {n} : g[m] \in Int
      /\ \A r \in Rows : c[r] \in Int
  BY <1>1 DEF TablesTyped, Bills, Credits, Billed
<1>4. Switched(l) = SumFunctionOnSet(f, S) - SumFunctionOnSet(c, Rows)
  BY DEF Switched, SumFunction
<1>5. Switched(l)' = SumFunctionOnSet(g, S \cup {n}) - SumFunctionOnSet(c, Rows)
  BY <1>2 DEF Switched, SumFunction
<1>6. IsFiniteSet(S)
  BY KeysFinite, FS_Subset DEF Billed
<1>7. g[n] = bills'[n].base
  OBVIOUS
<1> HIDE DEF f, g, c, S
<1>8. SumFunctionOnSet(g, S) = SumFunctionOnSet(f, S)
  BY <1>3, <1>6, SumSame
<1>9. SumFunctionOnSet(g, S \cup {n}) = g[n] + SumFunctionOnSet(g, S)
  BY <1>2, <1>3, <1>6, SumPutIn
<1>10. SumFunctionOnSet(g, S) \in Int /\ SumFunctionOnSet(c, Rows) \in Int /\ g[n] \in Int
  BY <1>3, <1>6, RowsFinite, SumType
<1> QED BY <1>1, <1>4, <1>5, <1>7, <1>8, <1>9, <1>10

\* A credit given for a bill takes its amount off, and off no other.
LEMMA CreditAdded ==
    ASSUME TablesTyped, credits' \in [Rows -> Credits], bills' = bills, NEW f \in Rows, NEW k,
           credits[f] = NoCredit, credits'[f].of = {k},
           \A r \in Rows : r # f => credits'[r] = credits[r], NEW l \in Keys
    PROVE  /\ Billed(l[2])' = Billed(l[2])
           /\ Switched(l)' = IF l = k THEN Switched(l) - credits'[f].amount ELSE Switched(l)
<1> DEFINE b == [n \in Keys |-> bills[n].base]
           c == [r \in Rows |-> IF l \in credits[r].of THEN credits[r].amount ELSE 0]
           d == [r \in Rows |-> IF l \in credits'[r].of THEN credits'[r].amount ELSE 0]
           S == Billed(l[2]) \ {l}
<1>1. Billed(l[2])' = Billed(l[2])
  BY DEF Billed
<1>2. (\A n \in S : b[n] \in Int) /\ (\A r \in Rows : c[r] \in Int /\ d[r] \in Int)
  BY DEF TablesTyped, Bills, Credits, Billed
<1>3. Switched(l) = SumFunctionOnSet(b, S) - SumFunctionOnSet(c, Rows)
  BY DEF Switched, SumFunction
<1>4. Switched(l)' = SumFunctionOnSet(b, S) - SumFunctionOnSet(d, Rows)
  BY <1>1 DEF Switched, SumFunction
<1>5. IsFiniteSet(S)
  BY KeysFinite, FS_Subset DEF Billed
<1>6. /\ \A r \in Rows \ {f} : d[r] = c[r]
      /\ c[f] = 0
  BY DEF NoCredit
<1>7. l = k => d[f] = credits'[f].amount
  OBVIOUS
<1>8. l # k => d[f] = 0
  OBVIOUS
<1> HIDE DEF b, c, d, S
<1>9. SumFunctionOnSet(d, Rows) = SumFunctionOnSet(c, Rows) + d[f] - c[f]
  BY <1>2, <1>6, RowsFinite, SumChanged
<1>10. /\ SumFunctionOnSet(b, S) \in Int /\ SumFunctionOnSet(c, Rows) \in Int
       /\ SumFunctionOnSet(d, Rows) \in Int /\ d[f] \in Int
  BY <1>2, <1>5, RowsFinite, SumType
<1>11. CASE l = k
  BY <1>1, <1>3, <1>4, <1>6, <1>7, <1>9, <1>10, <1>11
<1>12. CASE l # k
  BY <1>1, <1>3, <1>4, <1>6, <1>8, <1>9, <1>10, <1>12
<1> QED BY <1>11, <1>12

\* A switch adds its difference to the period running today, as a line or a credit, and
\* to no other.
LEMMA AdjustOrder ==
    ASSUME CreditInv, CreditInv', CalmRest, Ordered, NEW q \in Admins, Idle(Actors \ {q}), Adjust(q)
    PROVE  Ordered'
<1>0. /\ q \in Actors /\ TablesTyped /\ InARow /\ AddsUp /\ req[q] \in Requests /\ OnTheLast(q)
      /\ bills' \in [Keys -> Bills] /\ credits' \in [Rows -> Credits]
      /\ BillsPlaced /\ OneBillPerPeriod /\ StillSo(q) /\ At(q, "adjusting")
  BY TypesSplit DEF CreditInv, TypeInv, TypeOK, Actors, Ordered, CalmRest, Adjust
<1>1. Switching(q) /\ Becomes(q, NoRequest) /\ plan' = plan /\ made' = made /\ day' = day
  BY AdjustIs DEF ledger, rest
<1>2. PICK k \in req[q].line : \E n \in Keys :
        /\ k \in Keys /\ n = <<req[q].fresh, k[2]>> /\ req[q].fresh \in Rows
        /\ credits[req[q].fresh] = NoCredit /\ Difference(q) \in Int
        /\ \/ /\ Difference(q) > 0 /\ credits' = credits
              /\ \A l \in Keys : l # n => bills'[l] = bills[l]
              /\ bills[n].kind = "none" => bills'[n] = Bill("upgrade", Difference(q))
              /\ bills[n].kind # "none" => bills'[n] = bills[n]
           \/ /\ Difference(q) <= 0 /\ bills' = bills
              /\ \A r \in Rows : r # req[q].fresh => credits'[r] = credits[r]
              /\ credits'[req[q].fresh]
                    = [of |-> {k}, amount |-> -Difference(q), left |-> -Difference(q)]
  BY AdjustIs
<1>3. RowsStand /\ InARow'
  BY <1>0, <1>1, RowsUntouched
<1>4. req'[q] = NoRequest /\ \A b \in Actors : Switching(b)' => b = q
  BY <1>0, <1>1, Ended, OthersIdle
<1>5. \A b \in Actors : ~Switching(b)'
  BY <1>4, Ended DEF Switching, At
<1>6. \A b \in Actors : OnTheLast(b)'
  BY <1>0, <1>1, Ended, LastMoved DEF LastWell
<1>7. k \in Keys /\ k[2] = PeriodOf(day) /\ bills[k].kind = "period"
  BY <1>0, <1>2 DEF StillSo, Running
<1>8. /\ Difference(q) = plan[made].price - plan[made - 1].price
      /\ plan[made].price \in Nat /\ plan[made - 1].price \in Nat /\ made \in Rows
  BY <1>0, <1>1, DifferenceIs
<1>9. ASSUME NEW l \in Keys, bills[l].kind = "period"
      PROVE  /\ l[2] # PeriodOf(day) => plan'[ChargedPlan(l[2])'].price = plan[ChargedPlan(l[2])].price
             /\ l[2] = PeriodOf(day) =>
                   /\ l = k /\ plan[ChargedPlan(l[2])].price = plan[made - 1].price
                   /\ plan'[ChargedPlan(l[2])'].price = plan[made].price
             /\ plan'[l[1]].price = plan[l[1]].price /\ plan[l[1]].price \in Nat
             /\ (\A m \in Billed(l[2]) : bills[m].status # "void") =>
                   Switched(l) = plan[ChargedPlan(l[2])].price - plan[l[1]].price
             /\ Switched(l) \in Int
  <2>1. l[2] \in Nat /\ l[1] \in Rows
    BY PeriodDaysOf DEF Keys, Periods
  <2>2. plan[l[1]].price \in Nat
    BY <1>0, <2>1, PricesAreNat DEF TablesTyped, Plans
  <2>3. l[2] = PeriodOf(day) => l = k
    BY <1>0, <1>7, <1>9 DEF OneBillPerPeriod
  <2>4. /\ l[2] # PeriodOf(day) => ChargedPlan(l[2])' = ChargedPlan(l[2])
        /\ l[2] = PeriodOf(day) => ChargedPlan(l[2]) = made - 1 /\ ChargedPlan(l[2])' = made
    BY <1>0, <1>1, <1>5, <2>1, SwitchEnds
  <2>5. Switched(l) \in Int
    BY <1>0, SwitchedIsInt
  <2> QED BY <1>0, <1>1, <1>9, <2>2, <2>3, <2>4, <2>5 DEF AddsUp
<1>10. ASSUME NEW l \in Keys, bills'[l].kind = "period",
              \A m \in Billed(l[2])' : bills'[m].status # "void"
       PROVE  Switched(l)' = plan'[ChargedPlan(l[2])'].price - plan'[l[1]].price
  <2>1. CASE Difference(q) > 0
    <3>1. PICK n \in Keys :
            /\ n = <<req[q].fresh, k[2]>> /\ req[q].fresh \in Rows
            /\ credits' = credits /\ \A m \in Keys : m # n => bills'[m] = bills[m]
            /\ bills[n].kind = "none" => bills'[n] = Bill("upgrade", Difference(q))
      BY <1>2, <2>1
    <3>2. n[1] = req[q].fresh /\ n[2] = PeriodOf(day)
      BY <1>7, <3>1
    <3>3. bills[n].kind = "none"
      BY <1>0, <1>1, <3>2 DEF BillsPlaced
    <3>4. bills'[n].kind = "upgrade" /\ bills'[n].base = Difference(q)
      BY <3>1, <3>3 DEF Bill
    <3>5. l # n /\ bills[l].kind = "period"
      BY <1>10, <3>1, <3>4
    <3>6. CASE l[2] # PeriodOf(day)
      <4>1. Billed(l[2])' = Billed(l[2]) /\ Switched(l)' = Switched(l)
        BY <3>1, <3>2, <3>6, SwitchedSame
      <4>2. \A m \in Billed(l[2]) : bills[m].status # "void"
        BY <1>10, <3>1, <3>3, <4>1 DEF Billed
      <4> QED BY <1>9, <3>5, <3>6, <4>1, <4>2
    <3>7. CASE l[2] = PeriodOf(day)
      <4>1. Billed(l[2]) \subseteq Billed(l[2])' /\ Switched(l)' = Switched(l) + Difference(q)
        BY <1>0, <3>1, <3>2, <3>3, <3>4, <3>5, <3>7, LineAdded
      <4>2. \A m \in Billed(l[2]) : bills[m].status # "void"
        BY <1>10, <3>1, <3>3, <4>1 DEF Billed
      <4>3. Switched(l) = plan[made - 1].price - plan[l[1]].price
        BY <1>9, <3>5, <3>7, <4>2
      <4> QED BY <1>8, <1>9, <3>5, <3>7, <4>1, <4>3
    <3> QED BY <3>6, <3>7
  <2>2. CASE ~(Difference(q) > 0)
    <3>1. /\ bills' = bills /\ req[q].fresh \in Rows /\ credits[req[q].fresh] = NoCredit
          /\ Difference(q) \in Int
          /\ \A r \in Rows : r # req[q].fresh => credits'[r] = credits[r]
          /\ credits'[req[q].fresh].of = {k} /\ credits'[req[q].fresh].amount = -Difference(q)
      BY <1>2, <2>2
    <3>2. /\ Billed(l[2])' = Billed(l[2])
          /\ Switched(l)' = IF l = k THEN Switched(l) - credits'[req[q].fresh].amount ELSE Switched(l)
      BY <1>0, <3>1, CreditAdded
    <3>3. bills[l].kind = "period" /\ \A m \in Billed(l[2]) : bills[m].status # "void"
      BY <1>10, <3>1, <3>2
    <3>4. CASE l[2] # PeriodOf(day)
      <4>1. l # k
        BY <1>7, <3>4
      <4> QED BY <1>9, <3>2, <3>3, <3>4, <4>1
    <3>5. CASE l[2] = PeriodOf(day)
      <4>1. l = k /\ Switched(l) = plan[made - 1].price - plan[l[1]].price
        BY <1>9, <3>3, <3>5
      <4>2. Switched(l)' = Switched(l) + Difference(q)
        BY <1>9, <3>1, <3>2, <3>3, <4>1
      <4> QED BY <1>8, <1>9, <3>3, <3>5, <4>1, <4>2
    <3> QED BY <3>4, <3>5
  <2> QED BY <2>1, <2>2
<1>11. AddsUp'
  BY <1>10 DEF AddsUp
<1> QED BY <1>3, <1>6, <1>11 DEF Ordered

\* The lane's steps: the newest row is never closed, for there is no other live one.
LEMMA LaneOrder ==
    ASSUME CreditInv, CreditInv', CalmRest, LaneHeld, Ordered, NEW q \in Admins, Idle(Actors \ {q}), Lane(q)
    PROVE  Ordered'
<1>0. /\ q \in Actors /\ TablesTyped /\ InARow /\ BillsPlaced /\ req[q] \in Requests /\ OnTheLast(q)
      /\ Live = {made} /\ made \in Rows /\ made \in Nat /\ day \in Days
  <2>1. /\ q \in Actors /\ TablesTyped /\ InARow /\ BillsPlaced /\ req[q] \in Requests /\ OnTheLast(q)
    BY TypesSplit DEF CreditInv, TypeInv, TypeOK, Actors, Ordered, CalmRest
  <2> QED BY <2>1, OnlyLive DEF TablesTyped, Rows
<1>1. CASE TakeLane(q)
  <2> DEFINE r == Request("holding", Live, 0, {}, {})
  <2>1. r \in Requests /\ r.at = "holding" /\ r.seen = {made}
    <3>1. Live \in SUBSET Rows
      BY <1>0
    <3> QED BY <1>0, <3>1, Asked DEF Stages
  <2>2. Becomes(q, r) /\ made' = made /\ plan' = plan /\ UNCHANGED money /\ day' = day /\ ~Switching(q)
    BY <1>1 DEF TakeLane, ledger, rest, Switching, At
  <2> HIDE DEF r
  <2>3. LastWell(r)
    BY <2>1, <2>2 DEF LastWell
  <2>4. RowsStand /\ InARow' /\ BillsStand
    BY <1>0, <2>2, RowsUntouched, MoneyStands
  <2> QED BY <1>0, <2>1, <2>2, <2>3, <2>4, OrderAside
<1>2. ASSUME NEW price \in Prices, Switch(q, price)
      PROVE  Ordered'
  BY <1>0, <1>2, SwitchOrder
<1>3. ASSUME NEW x \in Rows, NEW door \in Doors, Close(q, x, door)
      PROVE  Ordered'
  <2>1. /\ Becomes(q, NoRequest) /\ made' = made /\ UNCHANGED money /\ day' = day
        /\ MayClose(q, x, door) /\ ~Switching(q) /\ At(q, "holding")
        /\ plan' = [plan EXCEPT ![x] = Shut(plan[x], door)]
    BY <1>3 DEF Close, Done, rest, Switching, At
  <2>2. x # made /\ x <= made
    BY <1>0, <2>1 DEF MayClose, OnTheLast
  <2>3. /\ \A r \in Rows : r # x => plan'[r] = plan[r]
        /\ plan'[x].start = plan[x].start /\ plan'[x].price = plan[x].price
        /\ plan'[x].end = day \/ plan'[x].end = plan[x].end
    <3>1. plan[x] \in Plans /\ plan'[x] = Shut(plan[x], door) /\ \A r \in Rows : r # x => plan'[r] = plan[r]
      BY <1>0, <2>1 DEF TablesTyped
    <3> QED BY <3>1 DEF Shut, Plans
  <2>4. 1 .. made \subseteq Rows /\ \A r \in 1 .. made - 1 : r \in 1 .. made /\ r + 1 \in 1 .. made
    BY <1>0 DEF Rows
  <2>5. RowsStand
    BY <2>3, <2>4 DEF RowsStand
  <2>6. InARow'
    <3>1. plan'[made].live /\ plan'[made].end = Never /\ plan'[1].start = 0
      <4>1. 1 \in 1 .. made
        BY <1>0 DEF Rows
      <4>2. plan'[made] = plan[made] /\ plan'[1].start = plan[1].start
        BY <1>0, <2>2, <2>3, <2>4, <4>1
      <4> QED BY <1>0, <4>2 DEF InARow
    <3>2. \A r \in 1 .. made : plan'[r].start <= day
      BY <1>0, <2>5 DEF InARow, RowsStand
    <3>3. \A r \in 1 .. made - 1 : plan'[r].end \in Days /\ plan'[r + 1].start <= plan'[r].end
      BY <1>0, <2>3, <2>4, <2>5 DEF InARow, RowsStand
    <3> QED BY <2>1, <3>1, <3>2, <3>3 DEF InARow
  <2>7. LastWell(NoRequest)
    BY Ended DEF LastWell
  <2> QED BY <1>0, <2>1, <2>5, <2>6, <2>7, Ended, MoneyStands, OrderAside
<1>4. CASE RollBack(q)
  <2>1. Becomes(q, NoRequest) /\ made' = made /\ plan' = plan /\ UNCHANGED money /\ day' = day /\ ~Switching(q)
    BY <1>4 DEF RollBack, Done, ledger, rest, Switching, At
  <2>2. RowsStand /\ InARow' /\ BillsStand /\ LastWell(NoRequest)
    BY <1>0, <2>1, Ended, RowsUntouched, MoneyStands DEF LastWell
  <2> QED BY <1>0, <2>1, <2>2, Ended, OrderAside
<1>5. CASE FindBill(q)
  BY <1>0, <1>5, FindBillOrder
<1>6. CASE Adjust(q)
  BY <1>6, AdjustOrder
<1> QED BY <1>1, <1>2, <1>3, <1>4, <1>5, <1>6 DEF Lane, AdminOn

\* A run inserts the bill of a period on its last plan, where there was none: nothing is
\* switched of it yet.
LEMMA MintOrder ==
    ASSUME CreditInv, CreditInv', CalmRest, Ordered, NEW g \in Runs, Idle(Actors \ {g}), Mint(g)
    PROVE  Ordered'
<1>0. /\ g \in Actors /\ TablesTyped /\ InARow /\ AddsUp /\ Underway(g) /\ req[g].todo \in SUBSET Charges
      /\ BillsPlaced /\ StillSo(g) /\ OnTheLast(g) /\ At(g, "checked")
  BY TypesSplit DEF CreditInv, TypeInv, TypeOK, Requests, Actors, Ordered, CalmRest, Mint
<1> DEFINE charges == {c \in req[g].todo : bills[c.key].kind = "none"}
<1>1. plan' = plan /\ made' = made /\ credits' = credits /\ day' = day /\ Proceed(g, "minted", charges)
  BY DEF Mint, ledger, rest
<1>2. \A k \in Keys :
        IF \E c \in req[g].todo : c.key = k /\ bills[k].kind = "none"
        THEN \E c \in req[g].todo : c.key = k /\ bills'[k] = Bill("period", c.base)
        ELSE bills'[k] = bills[k]
  BY <1>0, MintedTyped DEF TablesTyped
<1>3. /\ charges \in SUBSET Charges
      /\ \A c \in charges : /\ c.key \in Keys /\ Billed(c.key[2]) = {} /\ c.key[1] = LastPlan(c.key[2])
                            /\ \A d \in req[g].todo : d.key[2] = c.key[2] => d = c
  BY <1>0 DEF Charges, StillSo, OnTheLast, Underway
<1>3a. \A k \in Keys : \/ bills'[k] = bills[k]
                       \/ bills[k].kind = "none" /\ \E c \in charges : c.key = k
  <2>1. ASSUME NEW k \in Keys, bills'[k] # bills[k]
        PROVE  bills[k].kind = "none" /\ \E c \in charges : c.key = k
    <3>1. PICK c \in req[g].todo : c.key = k /\ bills[k].kind = "none"
      BY <1>2, <2>1
    <3> QED BY <3>1
  <2> HIDE DEF charges
  <2> QED BY <2>1
<1> HIDE DEF charges
<1>4. PICK r \in Requests : /\ Becomes(g, r) /\ r.todo = charges
                           /\ r.at = IF charges = {} THEN "idle" ELSE "minted"
  BY <1>1, <1>3, Goes DEF Stages
<1>5. \A b \in Actors : OnTheLast(b)'
  BY <1>0, <1>4, LastMoved DEF LastWell
<1>6. \A b \in Actors : ~Switching(b) /\ ~Switching(b)'
  <2>1. req'[g] = r /\ \A b \in Actors : Switching(b)' => b = g
    BY <1>0, <1>4, OthersIdle
  <2> QED BY <1>0, <1>4, <2>1 DEF Idle, Switching, At
<1>7. RowsStand /\ InARow'
  BY <1>0, <1>1, RowsUntouched
<1>8. ASSUME NEW k \in Keys, bills'[k].kind = "period",
             \A n \in Billed(k[2])' : bills'[n].status # "void"
      PROVE  Switched(k)' = plan'[ChargedPlan(k[2])'].price - plan'[k[1]].price
  <2>1. k[2] \in Nat /\ k[1] \in Rows
    BY PeriodDaysOf DEF Keys, Periods
  <2>2. CASE bills'[k] = bills[k]
    <3>1. k \in Billed(k[2])
      BY <1>8, <2>2 DEF Billed
    <3>2. \A n \in Keys : n[2] = k[2] => bills'[n] = bills[n]
      BY <1>3, <1>3a, <3>1
    <3>3. Billed(k[2])' = Billed(k[2]) /\ Switched(k)' = Switched(k)
      BY <1>1, <3>2, SwitchedSame
    <3>4. \A n \in Billed(k[2]) : bills[n].status # "void"
      BY <1>8, <3>2, <3>3 DEF Billed
    <3>5. Switched(k) = plan[ChargedPlan(k[2])].price - plan[k[1]].price
      BY <1>0, <1>8, <2>2, <3>4 DEF AddsUp
    <3>6. plan'[ChargedPlan(k[2])'].price = plan[ChargedPlan(k[2])].price
      BY <1>0, <1>1, <1>6, <1>7, <2>1, NothingPending
    <3> QED BY <1>1, <3>3, <3>5, <3>6
  <2>3. CASE bills[k].kind = "none" /\ \E c \in charges : c.key = k
    <3>1. Billed(k[2]) = {} /\ k[1] = LastPlan(k[2])
      BY <1>3, <2>3
    <3>2. \A n \in Keys : n[2] = k[2] /\ n # k => bills'[n].kind = "none"
      <4>1. ASSUME NEW n \in Keys, n[2] = k[2], n # k
            PROVE  bills'[n].kind = "none"
        <5>1. bills[n].kind = "none"
          BY <3>1, <4>1 DEF Billed
        <5>2. ~\E c \in req[g].todo : c.key = n
          BY <1>3, <2>3, <4>1
        <5> QED BY <1>2, <5>1, <5>2
      <4> QED BY <4>1
    <3>3. Billed(k[2])' \ {k} = {}
      BY <3>2 DEF Billed
    <3>4. \A x \in Rows : k \notin credits'[x].of
      BY <1>0, <1>1, <2>3 DEF BillsPlaced
    <3>5. Switched(k)' = 0
      <4> DEFINE f == [n \in Keys |-> bills'[n].base]
                 c == [x \in Rows |-> IF k \in credits'[x].of THEN credits'[x].amount ELSE 0]
      <4>1. Switched(k)' = SumFunctionOnSet(f, {}) - SumFunctionOnSet(c, Rows)
        BY <3>3 DEF Switched, SumFunction
      <4>2. \A x \in Rows : c[x] = 0
        BY <3>4
      <4> HIDE DEF f, c
      <4>3. SumFunctionOnSet(f, {}) = 0 /\ SumFunctionOnSet(c, Rows) = 0
        BY <4>2, SumEmpty, RowsFinite, SumZero
      <4> QED BY <4>1, <4>3
    <3>6. ChargedPlan(k[2])' = k[1]
      BY <1>1, <1>6, <1>7, <3>1, LastPlanStands DEF ChargedPlan
    <3>7. plan'[k[1]].price \in Nat
      BY <1>0, <1>1, <2>1, PricesAreNat DEF TablesTyped, Plans
    <3> QED BY <3>5, <3>6, <3>7
  <2> QED BY <1>3a, <2>2, <2>3
<1>9. AddsUp'
  BY <1>8 DEF AddsUp
<1> QED BY <1>5, <1>7, <1>9 DEF Ordered

\* The steps of an approval or a run.
LEMMA RunOrder ==
    ASSUME CreditInv, CreditInv', CalmRest, LaneHeld, Ordered, NEW g \in Runs, Idle(Actors \ {g}),
           Approve(g) \/ ReadPlans(g) \/ RunOn(g)
    PROVE  Ordered'
<1>0. /\ g \in Actors /\ TablesTyped /\ InARow /\ BillsPlaced /\ req[g] \in Requests /\ OnTheLast(g)
      /\ Waiting \subseteq {made} /\ made \in Rows /\ 1 .. made \in SUBSET Rows
      /\ req[g].seen \in SUBSET Rows /\ req[g].todo \in SUBSET Charges
  <2>1. /\ g \in Actors /\ TablesTyped /\ InARow /\ BillsPlaced /\ req[g] \in Requests /\ OnTheLast(g)
    BY TypesSplit DEF CreditInv, TypeInv, TypeOK, Actors, Ordered, CalmRest
  <2>2. Waiting \subseteq {made} /\ made \in Rows
    BY <2>1, OnlyLive
  <2> QED BY <2>1, <2>2 DEF Rows, Requests
<1>1. CASE Approve(g)
  <2> DEFINE r == Request("stamping", Waiting, 0, {}, {})
  <2>1. r \in Requests /\ r.at = "stamping" /\ r.seen = Waiting
    <3>1. Waiting \in SUBSET Rows
      BY <1>0
    <3> QED BY <3>1, Asked DEF Stages
  <2>2. Becomes(g, r) /\ made' = made /\ plan' = plan /\ UNCHANGED money /\ day' = day /\ ~Switching(g)
    BY <1>1 DEF Approve, ledger, Switching, At
  <2> HIDE DEF r
  <2>3. LastWell(r)
    BY <1>0, <2>1, <2>2 DEF LastWell
  <2>4. RowsStand /\ InARow' /\ BillsStand
    BY <1>0, <2>2, RowsUntouched, MoneyStands
  <2> QED BY <1>0, <2>1, <2>2, <2>3, <2>4, OrderAside
<1>2. CASE Stamp(g)
  <2> DEFINE stamped == req[g].seen \cap Waiting
             r == IF stamped = {} THEN NoRequest ELSE Request("reading", stamped, 0, {}, {})
  <2>1. /\ Becomes(g, r) /\ made' = made /\ UNCHANGED money /\ day' = day /\ ~Switching(g)
        /\ plan' = [x \in Rows |-> IF x \in stamped THEN [plan[x] EXCEPT !.anchor = day] ELSE plan[x]]
    BY <1>2 DEF Stamp, Done, rest, Switching, At
  <2>2. r \in Requests /\ r.at \in {"idle", "reading"} /\ (r.at = "reading" => r.seen = stamped)
    <3>1. CASE stamped = {}
      BY <3>1, Ended
    <3>2. CASE stamped # {}
      <4> DEFINE s == Request("reading", stamped, 0, {}, {})
      <4>1. s \in Requests /\ s.at = "reading" /\ s.seen = stamped
        BY <1>0, Asked DEF Stages
      <4>2. r = s
        BY <3>2
      <4> HIDE DEF s, r
      <4> QED BY <4>1, <4>2
    <3> QED BY <3>1, <3>2
  <2>3. \A x \in Rows : /\ plan'[x].start = plan[x].start /\ plan'[x].price = plan[x].price
                        /\ plan'[x].end = plan[x].end /\ plan'[x].live = plan[x].live
    <3>1. ASSUME NEW x \in Rows
          PROVE  /\ plan'[x].start = plan[x].start /\ plan'[x].price = plan[x].price
                 /\ plan'[x].end = plan[x].end /\ plan'[x].live = plan[x].live
      <4>1. plan[x] \in Plans
        BY <1>0 DEF TablesTyped
      <4>2. plan'[x] = [plan[x] EXCEPT !.anchor = day] \/ plan'[x] = plan[x]
        BY <2>1
      <4> QED BY <4>1, <4>2 DEF Plans
    <3> QED BY <3>1
  <2>4. stamped \subseteq {made}
    BY <1>0
  <2> HIDE DEF stamped, r
  <2>5. LastWell(r)
    BY <2>1, <2>2, <2>4 DEF LastWell
  <2>6. RowsStand
    BY <1>0, <2>3 DEF RowsStand
  <2>7. InARow'
    <3>1. 1 \in Rows /\ \A x \in 1 .. made - 1 : x \in Rows /\ x + 1 \in Rows
      BY <1>0 DEF Rows
    <3> QED BY <1>0, <2>1, <2>3, <3>1 DEF InARow
  <2> QED BY <1>0, <2>1, <2>2, <2>5, <2>6, <2>7, MoneyStands, OrderAside
<1>3. ASSUME NEW stage \in {"planned", "checked", "minted"}, NEW charges \in SUBSET Charges,
             Proceed(g, stage, charges), made' = made, plan' = plan, day' = day, BillsStand, ~Switching(g),
             stage # "minted" => \A c \in charges : c.key[1] = LastPlan(c.key[2])
      PROVE  Ordered'
  <2>1. PICK r \in Requests : /\ Becomes(g, r) /\ r.todo = charges
                             /\ r.at = IF charges = {} THEN "idle" ELSE stage
    <3>1. stage \in Stages /\ Proceed(g, stage, charges)
      BY <1>3 DEF Stages
    <3> QED BY <3>1, Goes
  <2>2. RowsStand /\ InARow'
    BY <1>0, <1>3, RowsUntouched
  <2>3. LastWell(r)
    <3>1. \A c \in charges : LastPlan(c.key[2])' = LastPlan(c.key[2])
      BY <1>3, <2>2, LastPlanStands
    <3> QED BY <1>3, <2>1, <3>1 DEF LastWell
  <2> QED BY <1>0, <1>3, <2>1, <2>2, <2>3, OrderAside
<1>4. CASE ReadPlans(g)
  <2> DEFINE ids == IF At(g, "reading") THEN req[g].seen ELSE 1 .. made
  <2>1. ids \in SUBSET Rows /\ (ids = 1 .. made \/ ids \subseteq {made})
    BY <1>0 DEF OnTheLast
  <2>2. Proceed(g, "planned", Winners(ids)) /\ made' = made /\ plan' = plan /\ day' = day
        /\ UNCHANGED money /\ ~Switching(g)
    BY <1>4 DEF ReadPlans, ledger, rest, Switching, At
  <2> HIDE DEF ids
  <2>3. Winners(ids) \subseteq Charges
    BY <1>0, <2>1, WinnersCharge DEF TablesTyped
  <2>4. \A c \in Winners(ids) : c.key[1] = LastPlan(c.key[2])
    BY <1>0, <2>1, WinnerIsLast
  <2> QED BY <1>3, <2>2, <2>3, <2>4, MoneyStands
<1>5. CASE ReadBills(g)
  <2> DEFINE charges == {c \in req[g].todo : Billed(c.key[2]) = {}}
  <2>1. Proceed(g, "checked", charges) /\ made' = made /\ plan' = plan /\ day' = day
        /\ UNCHANGED money /\ ~Switching(g)
    BY <1>5 DEF ReadBills, ledger, rest, Switching, At
  <2>2. charges \in SUBSET Charges /\ \A c \in charges : c.key[1] = LastPlan(c.key[2])
    BY <1>0, <1>5 DEF ReadBills, OnTheLast
  <2> HIDE DEF charges
  <2> QED BY <1>3, <2>1, <2>2, MoneyStands
<1>6. CASE Mint(g)
  BY <1>6, MintOrder
<1>7. ASSUME NEW c \in req[g].todo, SpendCredits(g, c)
      PROVE  Ordered'
  <2> DEFINE charges == req[g].todo \ {c}
  <2>1. charges \in SUBSET Charges /\ c \in Charges
    BY <1>0
  <2>2. Proceed(g, "minted", charges) /\ made' = made /\ plan' = plan /\ day' = day /\ ~Switching(g)
    BY <1>7 DEF SpendCredits, ledger, rest, Switching, At
  <2>3. BillsStand
    <3>1. /\ \A x \in Rows : credits'[x].of = credits[x].of /\ credits'[x].amount = credits[x].amount
          /\ bills' = IF Used(c) = 0 THEN bills ELSE [bills EXCEPT ![c.key].credit = Used(c)]
      BY <1>0, <1>7, <2>1, SpentTyped DEF TablesTyped
    <3>2. \A k \in Keys : /\ bills'[k].kind = bills[k].kind /\ bills'[k].base = bills[k].base
                          /\ bills'[k].status = bills[k].status
      BY <1>0, <3>1 DEF TablesTyped, Bills
    <3> QED BY <3>1, <3>2 DEF BillsStand
  <2> HIDE DEF charges
  <2> QED BY <1>3, <2>1, <2>2, <2>3
<1> QED BY <1>1, <1>2, <1>4, <1>5, <1>6, <1>7 DEF RunOn

\* The rest, while nobody opens a row by hand.
LEMMA ElsewhereOrder ==
    ASSUME CreditInv, CreditInv', CalmRest, Ordered, Idle(Actors), Elsewhere, opened = 0, opened' = 0
    PROVE  Ordered'
<1>0. /\ TablesTyped /\ InARow /\ AddsUp /\ BillsPlaced /\ day \in Nat /\ made \in Nat
      /\ \A r \in 1 .. made : plan[r].start \in Nat
  <2>1. TablesTyped /\ InARow /\ AddsUp /\ BillsPlaced
    BY TypesSplit DEF CreditInv, TypeInv, Ordered, CalmRest
  <2>2. day \in Nat /\ made \in Nat /\ 1 .. made \subseteq Rows
    BY <2>1 DEF TablesTyped, Days, Rows
  <2>3. \A r \in Rows : plan[r].start \in Nat
    BY <2>1 DEF TablesTyped, Plans, Days
  <2> QED BY <2>1, <2>2, <2>3
<1>1. req' = req /\ plan' = plan /\ made' = made /\ (day' = day \/ day' = day + 1)
  BY DEF Elsewhere, NextDay, Pay, VoidBill, CreateRow, Reopen, ledger, rest
<1>2. BillsStand
  <2>1. CASE UNCHANGED money
    BY <2>1, MoneyStands
  <2>2. CASE ~UNCHANGED money
    <3>1. PICK k \in Keys : Pay(k) \/ VoidBill(k)
      BY <2>2 DEF Elsewhere, NextDay, CreateRow, Reopen
    <3>2. credits' = credits /\ bills[k].status = "unpaid"
          /\ \E s \in {"paid", "void"} : bills' = [bills EXCEPT ![k].status = s]
      BY <3>1 DEF Pay, VoidBill
    <3>3. \A n \in Keys : /\ bills'[n].kind = bills[n].kind /\ bills'[n].base = bills[n].base
                          /\ n # k => bills'[n].status = bills[n].status
      BY <1>0, <3>2 DEF TablesTyped, Bills
    <3> QED BY <3>2, <3>3 DEF BillsStand
  <2> QED BY <2>1, <2>2
<1>3. RowsStand /\ InARow'
  <2>1. \A r \in 1 .. made : plan[r].start <= day'
    BY <1>0, <1>1 DEF InARow
  <2> QED BY <1>0, <1>1, <2>1 DEF InARow, RowsStand
<1>4. \A b \in Actors : ~Switching(b) /\ ~Switching(b)' /\ OnTheLast(b)'
  BY <1>1 DEF Idle, Switching, At, OnTheLast
<1>5. \A k \in Keys : k[2] \in Nat
  BY PeriodDaysOf DEF Keys, Periods
<1>6. \A k \in Keys : plan'[ChargedPlan(k[2])'].price = plan[ChargedPlan(k[2])].price
  BY <1>0, <1>1, <1>3, <1>4, <1>5, NothingPending
<1>7. AddsUp'
  BY <1>0, <1>2, <1>3, <1>6, AddsUpSame
<1> QED BY <1>3, <1>4, <1>7 DEF Ordered

\* A row opened by hand is never forgotten.
LEMMA OpenedGrows ==
    ASSUME TypeInv, [Next]_vars
    PROVE  opened' = 0 => opened = 0
<1>1. opened \in Nat
  BY DEF TypeInv, TypeOK
<1>2. opened' = opened \/ opened' = opened + 1
  BY DEF Next, Lane, AdminOn, TakeLane, RollBack, FindBill, Adjust, Switch, Close, Die, Approve,
         ReadPlans, RunOn, Stamp, ReadBills, Mint, SpendCredits, Elsewhere, NextDay, Pay, VoidBill,
         CreateRow, Reopen, vars, rest
<1> QED BY <1>1, <1>2

LEMMA StartOrder == Init => InARow /\ AddsUp /\ \A a \in Actors : OnTheLast(a)
<1> SUFFICES ASSUME Init PROVE InARow /\ AddsUp /\ \A a \in Actors : OnTheLast(a)
  OBVIOUS
<1>1. /\ bills = [k \in Keys |-> NoBill] /\ req = [a \in Actors |-> NoRequest]
      /\ made = 1 /\ day = 0
  BY DEF Init
<1>2. PICK price \in Prices : plan = [r \in Rows |-> IF r = 1 THEN Opening(price, 0, Never) ELSE NoPlan]
  BY DEF Init
<1>3. plan[1] = Opening(price, 0, Never)
  <2>1. 1 \in Rows
    BY DEF Rows
  <2> QED BY <1>2, <2>1
<1>4. plan[1].live /\ plan[1].end = Never /\ plan[1].start = 0
  BY <1>3 DEF Opening
<1>5. InARow
  <2>1. (\A r : r \in 1 .. 1 => r = 1) /\ ~\E r : r \in 1 .. 0
    OBVIOUS
  <2>2. 1 .. made - 1 = {}
    BY <1>1
  <2> QED BY <1>1, <1>4, <2>1, <2>2 DEF InARow
<1>6. AddsUp
  BY <1>1 DEF AddsUp, NoBill, Bill
<1>7. \A a \in Actors : OnTheLast(a)
  BY <1>1, Ended DEF OnTheLast, Switching, At
<1> QED BY <1>5, <1>6, <1>7

LEMMA StepOrder ==
    Calm => (/\ IInv /\ CreditInv /\ CreditInv' /\ CalmRest /\ (opened = 0 => Ordered) /\ [Next]_vars
             => (opened = 0 => Ordered)')
<1> SUFFICES ASSUME Calm, IInv, CreditInv, CreditInv', CalmRest, opened = 0 => Ordered, [Next]_vars,
                    opened' = 0
             PROVE  Ordered'
  OBVIOUS
<1>0. opened = 0 /\ Ordered /\ LaneHeld
  BY OpenedGrows DEF CreditInv, IInv
<1>1. CASE UNCHANGED vars
  <2>1. plan' = plan /\ made' = made /\ day' = day /\ req' = req /\ UNCHANGED money
    BY <1>1 DEF vars, ledger, rest, money
  <2>2. TablesTyped /\ InARow /\ AddsUp /\ BillsPlaced /\ \A b \in Actors : OnTheLast(b)
    BY <1>0, TypesSplit DEF CreditInv, TypeInv, CalmRest, Ordered
  <2>3. RowsStand /\ InARow' /\ BillsStand
    BY <2>1, <2>2, RowsUntouched, MoneyStands
  <2>4. \A p : LastPlan(p)' = LastPlan(p) /\ ChargedPlan(p)' = ChargedPlan(p)
    BY <2>1 DEF LastPlan, ChargedPlan, Switching, At
  <2>5. AddsUp'
    BY <2>1, <2>2, <2>3, <2>4, AddsUpSame
  <2>6. \A b \in Actors : OnTheLast(b)'
    BY <2>1, <2>2, <2>4 DEF OnTheLast, Switching, At
  <2> QED BY <2>3, <2>5, <2>6 DEF Ordered
<1>2. CASE Next
  BY <1>0, <1>2, CalmNext, LaneOrder, RunOrder, ElsewhereOrder
<1> QED BY <1>1, <1>2

\* ... and, until somebody opens a row by hand, the rows follow one another and each
\* period comes to its last one, but for a switch that has yet to add its difference.
THEOREM OrderInvariance == Calm => (Spec => []OrderInv)
<1> SUFFICES ASSUME Calm PROVE Spec => []OrderInv
  OBVIOUS
<1>1. Init => (opened = 0 => Ordered)
  BY StartOrder DEF Ordered
<1>2. IInv /\ CreditInv /\ CreditInv' /\ CalmRest /\ (opened = 0 => Ordered) /\ [Next]_vars
        => (opened = 0 => Ordered)'
  BY StepOrder
<1>3. CalmInv => CreditInv /\ CalmRest
  BY DEF CalmInv, CalmRest
<1>4. CalmInv /\ (opened = 0 => Ordered) => OrderInv
  BY DEF OrderInv, Ordered
<1>5. Spec => []CalmInv
  BY CalmInvariance
<1> QED BY <1>1, <1>2, <1>3, <1>4, <1>5, LaneInvariance, PTL DEF Spec

\* While requests do not overlap and nobody opens a row by hand, a period billed at one
\* plan and switched to others comes, in lines and credits, to what the last of them
\* costs.
THEOREM DifferencesAddUp == Calm => (Spec => []PeriodAddsUp)
<1> SUFFICES ASSUME Calm PROVE Spec => []PeriodAddsUp
  OBVIOUS
<1>1. OrderInv => PeriodAddsUp
  <2> SUFFICES ASSUME OrderInv, Idle(Actors), opened = 0, NEW k \in Keys, bills[k].kind = "period",
                      \A n \in Billed(k[2]) : bills[n].status # "void"
               PROVE  Switched(k) = plan[LastPlan(k[2])].price - plan[k[1]].price
    BY DEF PeriodAddsUp
  <2>1. Switched(k) = plan[ChargedPlan(k[2])].price - plan[k[1]].price
    BY DEF OrderInv, AddsUp
  <2>2. ChargedPlan(k[2]) = LastPlan(k[2])
    BY DEF ChargedPlan, Idle, Switching, At
  <2> QED BY <2>1, <2>2
<1>2. Spec => []OrderInv
  BY OrderInvariance
<1> QED BY <1>1, <1>2, PTL
====
