---- MODULE Billing ----
(***************************************************************************)
(* The plan lane of one organisation and the bills it gives rise to        *)
(* (apps/backend/src/features/member-subscription, subscription,           *)
(* admin-request/apply-plan-change, subscription-invoice): plan switches,  *)
(* closing edits and cancels under the lane's advisory lock, the edits     *)
(* that take no lock, approval starting the meter, the runs that open      *)
(* missing periods, and the credits they spend.                            *)
(*                                                                         *)
(* A transaction is one step from its locks to its commit, except between  *)
(* taking the lane and writing; every other statement is a step.           *)
(***************************************************************************)
EXTENDS Integers, FiniteSets, FiniteSetsExt, Functions

CONSTANTS
    Admins,      \* switches and closes of the lane
    Runs,        \* runs of generateMissing, and approvals, which end in one
    Nobody,
    Prices,      \* plan prices, in sen
    MaxRows,     \* bound: rows ever on the lane
    MaxDay,      \* bound: the last day
    MaxOpened,   \* bound: rows opened by hand
    PeriodDays,  \* days of a billing period
    Calm         \* hypothesis: requests do not overlap, and none is cut short

Actors == Admins \cup Runs

ASSUME ActorsAssumption == Admins \cap Runs = {} /\ Nobody \notin Actors

ASSUME BoundsAssumption ==
    /\ Prices # {} /\ Prices \subseteq Nat \ {0} /\ IsFiniteSet(Prices)
    /\ MaxRows \in Nat \ {0} /\ MaxDay \in Nat /\ MaxOpened \in Nat
    /\ PeriodDays \in Nat \ {0}
    /\ Calm \in BOOLEAN

Rows == 1 .. MaxRows
Days == 0 .. MaxDay
Never == MaxDay + 1                  \* no end day yet, no billing anchor
First(p) == p * PeriodDays
Last(p) == First(p) + PeriodDays - 1
PeriodOf(d) == d \div PeriodDays
Periods == 0 .. PeriodOf(MaxDay)
Keys == Rows \X Periods              \* the unique index: one bill of a row and period

VARIABLES
    day,        \* today
    made,       \* rows 1 .. made exist, in the order they started
    plan,       \* [Rows -> Plans]  member_subscription
    bills,      \* [Keys -> Bills]  subscription_invoice
    credits,    \* [Rows -> Credits]  subscription_credit, by the row its switch opened
    lane,       \* who holds the lane's advisory lock
    req,        \* [Actors -> Requests]  what each request has reached and read
    opened,     \* rows opened by hand so far
    approved    \* the organisation is approved

vars == <<day, made, plan, bills, credits, lane, req, opened, approved>>
ledger == <<made, plan>>
money == <<bills, credits>>
rest == <<day, opened, approved>>

Plans == [price: Prices \cup {0}, start: Days, end: Days \cup {Never},
          anchor: Days \cup {Never}, live: BOOLEAN]
Bills == [kind: {"none", "period", "upgrade"}, base: Nat, credit: Nat,
          status: {"unpaid", "paid", "void"}]
Credits == [of: SUBSET Keys, amount: Nat, left: Nat]
Charges == [key: Keys, base: Nat]
Stages == {"idle", "holding", "pricing", "adjusting", "stamping", "reading", "planned",
           "checked", "minted"}

Requests == [at: Stages, seen: SUBSET Rows, fresh: Rows \cup {0}, line: SUBSET Keys,
             todo: SUBSET Charges]

NoPlan == [price |-> 0, start |-> 0, end |-> Never, anchor |-> Never, live |-> FALSE]
Bill(kind, base) == [kind |-> kind, base |-> base, credit |-> 0, status |-> "unpaid"]
NoBill == Bill("none", 0)
NoCredit == [of |-> {}, amount |-> 0, left |-> 0]

\* seen: rows read; fresh: the row a switch has opened; line: the running period's
\* bill as a switch read it; todo: the charges a run means to make.
Request(stage, seen, fresh, line, todo) ==
    [at |-> stage, seen |-> seen, fresh |-> fresh, line |-> line, todo |-> todo]
NoRequest == Request("idle", {}, 0, {}, {})

\* A row as enrolment, a switch or a create writes it.
Opening(price, start, anchor) ==
    [price |-> price, start |-> start, end |-> Never, anchor |-> anchor, live |-> TRUE]

\* The organisation has registered and waits for approval.
Init ==
    /\ day = 0 /\ made = 1 /\ opened = 0 /\ approved = FALSE
    /\ \E price \in Prices :
          plan = [r \in Rows |-> IF r = 1 THEN Opening(price, 0, Never) ELSE NoPlan]
    /\ bills = [k \in Keys |-> NoBill]
    /\ credits = [r \in Rows |-> NoCredit]
    /\ lane = Nobody
    /\ req = [a \in Actors |-> NoRequest]

At(a, stage) == req[a].at = stage
Becomes(a, request) == req' = [req EXCEPT ![a] = request]
Done(a) == Becomes(a, NoRequest)

\* The shared definition of a live plan row.
Live == {r \in Rows : plan[r].live /\ plan[r].end = Never}

(***************************************************************************)
(* The plan lane                                                           *)
(***************************************************************************)

\* Slip in TakeLane: the lane is read without its lock.
ReadLane(q) ==
    /\ At(q, "idle")
    /\ Becomes(q, Request("holding", Live, 0, {}, {}))
    /\ UNCHANGED <<ledger, money, lane, rest>>

\* takePlanLane, and the live rows read and locked under it.
TakeLane(q) ==
    /\ At(q, "idle")
    /\ lane = Nobody /\ lane' = q
    /\ Becomes(q, Request("holding", Live, 0, {}, {}))
    /\ UNCHANGED <<ledger, money, rest>>

\* What the organisation paid before a switch: the dearest of the rows it closes,
\* the newest of these.
Dearest(rows) == Max({plan[r].price : r \in rows})
Previous(rows) == Max({r \in rows : plan[r].price = Dearest(rows)})

\* Slip in Inherited: nothing is taken over.
InheritedNot(rows) == Never

\* The new row takes over the billing anchor; with nothing closed it is billable now.
Inherited(rows) == IF rows = {} THEN day ELSE plan[Previous(rows)].anchor

\* Slip in Switch: the old rows are not closed (as a merge once lost it).
SwitchBeside(q, price) ==
    /\ At(q, "holding") /\ made < MaxRows
    /\ made' = made + 1
    /\ plan' = [r \in Rows |->
          IF r = made + 1 THEN Opening(price, day, Inherited(req[q].seen))
          ELSE plan[r]]
    /\ lane' = Nobody
    /\ Becomes(q, IF req[q].seen = {} THEN NoRequest
                  ELSE Request("pricing", req[q].seen, made + 1, {}, {}))
    /\ UNCHANGED <<money, rest>>

\* applyPlanChangeToLedger, to its commit.
Switch(q, price) ==
    /\ At(q, "holding") /\ made < MaxRows
    /\ made' = made + 1
    /\ plan' = [r \in Rows |->
          IF r = made + 1 THEN Opening(price, day, Inherited(req[q].seen))
          ELSE IF r \in req[q].seen THEN [plan[r] EXCEPT !.end = day, !.live = FALSE]
          ELSE plan[r]]
    /\ lane' = Nobody
    /\ Becomes(q, IF req[q].seen = {} THEN NoRequest
                  ELSE Request("pricing", req[q].seen, made + 1, {}, {}))
    /\ UNCHANGED <<money, rest>>

\* The lane's bill of the period running today.
Running == {k \in Keys : k[2] = PeriodOf(day) /\ bills[k].kind = "period"
                                              /\ bills[k].status # "void"}
Difference(q) == plan[req[q].fresh].price - Dearest(req[q].seen)

\* prorateLaneSwitch, its read.
FindBill(q) ==
    /\ At(q, "pricing")
    /\ IF Difference(q) = 0 \/ Running = {} THEN Done(q)
       ELSE \E k \in Running : Becomes(q, Request("adjusting", req[q].seen, req[q].fresh, {k}, {}))
    /\ UNCHANGED <<ledger, money, lane, rest>>

\* A line beside the bill, unless the index already holds that row and period.
Upgrade(k, base) ==
    bills' = [bills EXCEPT ![k] =
        IF @.kind = "none" THEN Bill("upgrade", base) ELSE @]

\* Slip in Adjust: the whole price of the new plan is billed.
AdjustWhole(q) ==
    /\ At(q, "adjusting")
    /\ \E k \in req[q].line :
          IF Difference(q) > 0
          THEN /\ Upgrade(<<req[q].fresh, k[2]>>, plan[req[q].fresh].price)
               /\ UNCHANGED credits
          ELSE /\ credits' = [credits EXCEPT ![req[q].fresh] =
                     [of |-> {k}, amount |-> -Difference(q), left |-> -Difference(q)]]
               /\ UNCHANGED bills
    /\ Done(q)
    /\ UNCHANGED <<ledger, lane, rest>>

\* Slip in Adjust: the credit has the sign of the difference.
AdjustSigned(q) ==
    /\ At(q, "adjusting")
    /\ \E k \in req[q].line :
          IF Difference(q) > 0
          THEN /\ Upgrade(<<req[q].fresh, k[2]>>, Difference(q))
               /\ UNCHANGED credits
          ELSE /\ credits' = [credits EXCEPT ![req[q].fresh] =
                     [of |-> {k}, amount |-> Difference(q), left |-> Difference(q)]]
               /\ UNCHANGED bills
    /\ Done(q)
    /\ UNCHANGED <<ledger, lane, rest>>

\* Slip in Adjust: a cheaper plan is taken off the bill it was billed on.
AdjustInPlace(q) ==
    /\ At(q, "adjusting")
    /\ \E k \in req[q].line :
          IF Difference(q) > 0
          THEN Upgrade(<<req[q].fresh, k[2]>>, Difference(q))
          ELSE bills' = [bills EXCEPT ![k].credit = -Difference(q)]
    /\ Done(q)
    /\ UNCHANGED <<ledger, credits, lane, rest>>

\* Its write: a dearer plan is an upgrade line, a cheaper one a credit.
Adjust(q) ==
    /\ At(q, "adjusting")
    /\ \E k \in req[q].line :
          IF Difference(q) > 0
          THEN /\ Upgrade(<<req[q].fresh, k[2]>>, Difference(q))
               /\ UNCHANGED credits
          ELSE /\ credits' = [credits EXCEPT ![req[q].fresh] =
                     [of |-> {k}, amount |-> -Difference(q), left |-> -Difference(q)]]
               /\ UNCHANGED bills
    /\ Done(q)
    /\ UNCHANGED <<ledger, lane, rest>>

Doors == {"cancel", "date", "status"}

\* closeLaneVerdict: a live row needs another one beside it; a cancel also refuses
\* a row that has ended.
MayClose(q, r, door) ==
    /\ r <= made
    /\ r \in Live => req[q].seen \ {r} # {}
    /\ door = "cancel" => plan[r].end = Never

\* A cancel, an end date by hand, or a dead status by hand.
Shut(row, door) ==
    [row EXCEPT !.end = IF door = "status" THEN @ ELSE day,
                !.live = IF door = "date" THEN @ ELSE FALSE]

\* closeUnlessLastPlan.
Close(q, r, door) ==
    /\ At(q, "holding") /\ MayClose(q, r, door)
    /\ plan' = [plan EXCEPT ![r] = Shut(plan[r], door)]
    /\ lane' = Nobody
    /\ Done(q)
    /\ UNCHANGED <<made, money, rest>>

\* A refusal or a failed write: the transaction is rolled back.
RollBack(q) ==
    /\ At(q, "holding")
    /\ lane' = Nobody
    /\ Done(q)
    /\ UNCHANGED <<ledger, money, rest>>

\* POST, and a PUT that closes nothing: neither takes the lane.
CreateRow(price) ==
    /\ made < MaxRows /\ opened < MaxOpened
    /\ made' = made + 1 /\ opened' = opened + 1
    /\ plan' = [plan EXCEPT ![made + 1] = Opening(price, day, day)]
    /\ UNCHANGED <<money, lane, req, day, approved>>

Reopen(r) ==
    /\ r <= made /\ r \notin Live /\ opened < MaxOpened
    /\ opened' = opened + 1
    /\ plan' = [plan EXCEPT ![r] = [@ EXCEPT !.end = Never, !.live = TRUE]]
    /\ UNCHANGED <<made, money, lane, req, day, approved>>

(***************************************************************************)
(* Approval, and generateMissing                                           *)
(***************************************************************************)

Waiting == {r \in 1 .. made : plan[r].anchor = Never /\ plan[r].end = Never}

\* startBilling: its UPDATE finds its rows first, and waits for those a switch has
\* locked.
Approve(g) ==
    /\ At(g, "idle")
    /\ approved' = TRUE
    /\ Becomes(g, Request("stamping", Waiting, 0, {}, {}))
    /\ UNCHANGED <<ledger, money, lane, day, opened>>

Stamp(g) ==
    LET stamped == req[g].seen \cap Waiting
    IN /\ At(g, "stamping")
       /\ \A q \in Admins : At(q, "holding") => req[q].seen \cap req[g].seen = {}
       /\ plan' = [r \in Rows |-> IF r \in stamped THEN [plan[r] EXCEPT !.anchor = day] ELSE plan[r]]
       /\ IF stamped = {} THEN Done(g)
          ELSE Becomes(g, Request("reading", stamped, 0, {}, {}))
       /\ UNCHANGED <<made, money, lane, rest>>

\* A row that ended the day it started is the trail of a switch.
Held(rows) == {r \in rows : plan[r].end > plan[r].start}

HoldsPeriod(r, p) == plan[r].start <= Last(p) /\ plan[r].end > First(p)

\* The lane's billing day: the earliest anchor on it.
LaneAnchor(rows) == Min({plan[r].anchor : r \in rows})

\* lanePeriodShare: the day a period is billed from.
BilledFrom(rows, p) ==
    IF LaneAnchor(rows) > First(p) \/ \E r \in rows : plan[r].start <= First(p) /\ HoldsPeriod(r, p)
    THEN Max({LaneAnchor(rows), First(p)})
    ELSE Min({plan[r].start : r \in {s \in rows : HoldsPeriod(s, p)}})

\* chargeForPeriod: the share of the price for the days held, to the nearest sen.
Share(r, rows, p) ==
    (2 * plan[r].price * (Last(p) - BilledFrom(rows, p) + 1) + PeriodDays) \div (2 * PeriodDays)

\* Within a period the last row to start wins.
Winner(rows, p) == Max({r \in rows : HoldsPeriod(r, p)})

\* Periods reached since the anchor that some row held.
Reached(rows) ==
    {p \in PeriodOf(LaneAnchor(rows)) .. PeriodOf(day) : \E r \in rows : HoldsPeriod(r, p)}

\* What a lane still subscribed and with its meter running is to be charged.
Winners(ids) ==
    LET rows == Held(ids)
    IN IF rows \cap Live = {} \/ LaneAnchor(rows) = Never THEN {}
       ELSE {[key |-> <<Winner(rows, p), p>>, base |-> Share(Winner(rows, p), rows, p)] :
                p \in Reached(rows)}

Proceed(g, stage, charges) ==
    IF charges = {} THEN Done(g)
    ELSE Becomes(g, Request(stage, {}, 0, {}, charges))

\* An approval's run reads the rows it has stamped, any other run reads them all.
ReadPlans(g) ==
    /\ At(g, "idle") \/ At(g, "reading")
    /\ Proceed(g, "planned", Winners(IF At(g, "reading") THEN req[g].seen ELSE 1 .. made))
    /\ UNCHANGED <<ledger, money, lane, rest>>

\* Slip in Billed: a void bill does not count.
BilledNow(p) == {k \in Keys : k[2] = p /\ bills[k].kind # "none" /\ bills[k].status # "void"}

\* The lane's bills of a period, whatever their kind or status.
Billed(p) == {k \in Keys : k[2] = p /\ bills[k].kind # "none"}

\* The periods the lane has been billed for are dropped.
ReadBills(g) ==
    /\ At(g, "planned")
    /\ Proceed(g, "checked", {c \in req[g].todo : Billed(c.key[2]) = {}})
    /\ UNCHANGED <<ledger, money, lane, rest>>

\* Slip in Mint: the run goes on with the rows it meant to insert.
MintAll(g) ==
    LET new == {c \in req[g].todo : bills[c.key].kind = "none"}
    IN /\ At(g, "checked")
       /\ bills' = [k \in Keys |->
             IF \E c \in new : c.key = k
             THEN Bill("period", (CHOOSE c \in new : c.key = k).base)
             ELSE bills[k]]
       /\ Proceed(g, "minted", req[g].todo)
       /\ UNCHANGED <<ledger, credits, lane, rest>>

\* onConflictDoNothing: only what was inserted comes back.
Mint(g) ==
    LET new == {c \in req[g].todo : bills[c.key].kind = "none"}
    IN /\ At(g, "checked")
       /\ bills' = [k \in Keys |->
             IF \E c \in new : c.key = k
             THEN Bill("period", (CHOOSE c \in new : c.key = k).base)
             ELSE bills[k]]
       /\ Proceed(g, "minted", new)
       /\ UNCHANGED <<ledger, credits, lane, rest>>

\* What each open credit gives, oldest first, up to the whole of a charge.
Older(r) == SumFunctionOnSet([s \in Rows |-> credits[s].left], 1 .. r - 1)
Given(r, base) == Min({credits[r].left, Max({0, base - Older(r)})})

\* applyOpenCredits of one bill, in the order of the periods: its figure is written
\* over whatever the bill has become.
SpendCredits(g, c) ==
    LET used == SumFunction([r \in Rows |-> Given(r, c.base)])
    IN /\ At(g, "minted") /\ c \in req[g].todo
       /\ \A d \in req[g].todo : c.key[2] <= d.key[2]
       /\ credits' = [r \in Rows |-> [credits[r] EXCEPT !.left = @ - Given(r, c.base)]]
       /\ bills' = IF used = 0 THEN bills ELSE [bills EXCEPT ![c.key].credit = used]
       /\ Proceed(g, "minted", req[g].todo \ {c})
       /\ UNCHANGED <<ledger, lane, rest>>

(***************************************************************************)
(* The rest                                                                *)
(***************************************************************************)

Pay(k) ==
    /\ bills[k].kind # "none" /\ bills[k].status = "unpaid"
    /\ bills' = [bills EXCEPT ![k].status = "paid"]
    /\ UNCHANGED <<ledger, credits, lane, req, rest>>

\* Slip in VoidBill: a credit given for the bill is not asked for.
VoidAnyway(k) ==
    /\ bills[k].kind # "none" /\ bills[k].status = "unpaid" /\ bills[k].credit = 0
    /\ bills' = [bills EXCEPT ![k].status = "void"]
    /\ UNCHANGED <<ledger, credits, lane, req, rest>>

\* voidUnpaid: no credit was spent on the bill, and none was given for it.
VoidBill(k) ==
    /\ bills[k].kind # "none" /\ bills[k].status = "unpaid" /\ bills[k].credit = 0
    /\ \A r \in Rows : k \notin credits[r].of
    /\ bills' = [bills EXCEPT ![k].status = "void"]
    /\ UNCHANGED <<ledger, credits, lane, req, rest>>

NextDay ==
    /\ day < MaxDay /\ day' = day + 1
    /\ UNCHANGED <<ledger, money, lane, req, opened, approved>>

\* The process dies, or a statement after the commit fails and is swallowed.
Die(a) ==
    /\ ~At(a, "idle") /\ ~Calm
    /\ Done(a)
    /\ lane' = IF lane = a THEN Nobody ELSE lane
    /\ UNCHANGED <<ledger, money, rest>>

\* What ends a switch or a close that has begun.
AdminOn(q) == RollBack(q) \/ FindBill(q) \/ Adjust(q)

\* What ends a run that has begun.
RunOn(g) ==
    \/ Stamp(g) \/ ReadBills(g) \/ Mint(g)
    \/ \E c \in req[g].todo : SpendCredits(g, c)

Lane(q) ==
    \/ TakeLane(q) \/ AdminOn(q)
    \/ \E price \in Prices : Switch(q, price)
    \/ \E r \in Rows, door \in Doors : Close(q, r, door)

Elsewhere ==
    \/ NextDay
    \/ \E k \in Keys : Pay(k) \/ VoidBill(k)
    \/ \E price \in Prices : CreateRow(price)
    \/ \E r \in Rows : Reopen(r)

Idle(others) == \A a \in others : At(a, "idle")
Quiet(others) == Calm => Idle(others)

Next ==
    \/ \E q \in Admins : Quiet(Actors \ {q}) /\ (Lane(q) \/ Die(q))
    \/ \E g \in Runs : Quiet(Actors \ {g}) /\ (Approve(g) \/ ReadPlans(g) \/ RunOn(g) \/ Die(g))
    \/ Quiet(Actors) /\ Elsewhere

Spec == Init /\ [][Next]_vars

\* A request that has begun runs on, and the nightly run comes round however often
\* something else comes between.
Fairness ==
    /\ \A q \in Admins : WF_vars(Quiet(Actors \ {q}) /\ AdminOn(q))
    /\ \A g \in Runs : WF_vars(Quiet(Actors \ {g}) /\ RunOn(g))
    /\ \A g \in Runs : SF_vars(Quiet(Actors \ {g}) /\ ReadPlans(g))

FairSpec == Spec /\ Fairness

(***************************************************************************)
(* Properties                                                              *)
(***************************************************************************)

\* Types of the ledger, the bills, the credits and the requests.
TypeOK ==
    /\ day \in Days /\ made \in Rows /\ opened \in 0 .. MaxOpened /\ approved \in BOOLEAN
    /\ plan \in [Rows -> Plans]
    /\ bills \in [Keys -> Bills]
    /\ credits \in [Rows -> Credits]
    /\ lane \in Actors \cup {Nobody}
    /\ req \in [Actors -> Requests]

\* An organisation is never left without a live plan, however many switches, cancels
\* and closing edits of its lane run at once (readCloseLaneFacts).
NeverPlanless == Live # {}

\* A switch leaves no older plan live beside the new one: more than one is live only
\* if somebody opened a row by hand.
OneLivePlan == Cardinality(Live) <= 1 + opened

\* A credit is never spent past what it holds, and what it gave is on a bill,
\* whichever runs overlap (applyOpenCredits).
CreditsBalance ==
    SumFunction([r \in Rows |-> credits[r].amount - credits[r].left])
        = SumFunction([k \in Keys |-> bills[k].credit])

\* One charge per lane per period, whatever plans were held in it.
OneBillPerPeriod ==
    \A k, l \in Keys :
        k[2] = l[2] /\ bills[k].kind = "period" /\ bills[l].kind = "period" => k = l

\* The last plan to start in a period, or before it.
LastPlan(p) == Max({r \in 1 .. made : plan[r].start <= Last(p)})

\* What the switches of a period have changed what its bill k comes to: the lines
\* beside it, less the credits given for it.
Switched(k) ==
    SumFunctionOnSet([n \in Keys |-> bills[n].base], Billed(k[2]) \ {k})
        - SumFunction([r \in Rows |-> IF k \in credits[r].of THEN credits[r].amount ELSE 0])

\* A period billed at one plan and switched to others costs in the end what the last
\* of them does: the differences billed and credited add up (prorateLaneSwitch).
PeriodAddsUp ==
    Idle(Actors) /\ opened = 0 =>
        \A k \in Keys :
            bills[k].kind = "period" /\ (\A n \in Billed(k[2]) : bills[n].status # "void") =>
                Switched(k) = plan[LastPlan(k[2])].price - plan[k[1]].price

\* A credit is never left balancing a bill that was voided (voidRefusal).
CreditBacked == \A r \in Rows : \A k \in credits[r].of : bills[k].status # "void"

\* What a bill owes stands once it was paid or voided: no credit is taken off it later.
FigureStands ==
    [][\A k \in Keys : bills[k].status # "unpaid" => bills'[k].credit = bills[k].credit]_vars

\* A missed morning heals itself: a period an approved organisation reaches is billed.
PeriodIsBilled ==
    \A p \in Periods : approved /\ PeriodOf(day) = p ~> Billed(p) # {}
====
