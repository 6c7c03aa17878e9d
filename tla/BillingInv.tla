---- MODULE BillingInv ----
(***************************************************************************)
(* The facts that hold between any two steps of `Billing', strong enough   *)
(* to be preserved by each of them: of the plan lane and of the credits,   *)
(* whatever overlaps, and of the bills while requests do not overlap. They *)
(* are checked by TLC on the small instances and proved in                 *)
(* `BillingProofs'.                                                        *)
(***************************************************************************)
EXTENDS Billing

(***************************************************************************)
(* The plan lane                                                           *)
(***************************************************************************)

\* What the lane's own rules rest on, of the types above.
LaneTypes ==
    /\ made \in Rows /\ opened \in Nat
    /\ DOMAIN plan = Rows
    /\ \A r \in Rows :
          plan[r] = [price |-> plan[r].price, start |-> plan[r].start, end |-> plan[r].end,
                     anchor |-> plan[r].anchor, live |-> plan[r].live]
    /\ DOMAIN req = Actors
    /\ day \in Days
    /\ \A a \in Actors :
          req[a] = [at |-> req[a].at, seen |-> req[a].seen, fresh |-> req[a].fresh,
                    line |-> req[a].line, todo |-> req[a].todo]

\* A request holds the lane while it works on the rows it read, which stay live; only
\* a row opened by hand can be live beside them.
LaneHeld ==
    /\ \A a \in Actors : At(a, "holding") => a \in Admins /\ lane = a
    /\ \A q \in Admins : At(q, "holding") =>
          /\ req[q].seen \subseteq Live
          /\ Cardinality(Live \ req[q].seen) <= opened
    /\ \A r \in Rows : r > made => ~plan[r].live

\* The inductive invariant of the lane.
IInv == LaneTypes /\ LaneHeld /\ NeverPlanless /\ OneLivePlan

(***************************************************************************)
(* The credits                                                             *)
(***************************************************************************)

Switching(a) == At(a, "pricing") \/ At(a, "adjusting")

\* A switch on its way to the bills has closed rows and opened one; a run means at
\* most one charge a period.
Underway(a) ==
    /\ Switching(a) => req[a].seen # {} /\ req[a].fresh \in 1 .. made
    /\ \A c, d \in req[a].todo : c.key[2] = d.key[2] => c = d

TypeInv == TypeOK /\ \A a \in Actors : Underway(a)

\* Only the switch that opened a row gives a credit for it, and only once.
CreditsFresh ==
    /\ \A r \in Rows : r > made => credits[r] = NoCredit
    /\ \A a \in Actors : Switching(a) => credits[req[a].fresh] = NoCredit
    /\ \A a, b \in Actors :
          Switching(a) /\ Switching(b) /\ req[a].fresh = req[b].fresh => a = b

\* A run spends credits on the bills it has itself inserted, each once.
MintedOnce ==
    /\ \A k \in Keys : bills[k].kind = "none" => bills[k] = NoBill
    /\ \A a \in Actors : At(a, "minted") =>
          \A c \in req[a].todo : bills[c.key].kind # "none" /\ bills[c.key].credit = 0
    /\ \A a, b \in Actors : At(a, "minted") /\ At(b, "minted") /\ a # b =>
          \A c \in req[a].todo, d \in req[b].todo : c.key # d.key

CreditInv == TypeInv /\ CreditsFresh /\ MintedOnce /\ CreditsBalance

(***************************************************************************)
(* The bills, while requests do not overlap                                *)
(***************************************************************************)

OneAtATime == \A a, b \in Actors : ~At(a, "idle") /\ ~At(b, "idle") => a = b

\* What a request has read is still so.
StillSo(a) ==
    /\ At(a, "reading") => req[a].seen \subseteq 1 .. made
    /\ At(a, "planned") \/ At(a, "checked") =>
          \A c \in req[a].todo : c.key[1] <= made /\ c.key[2] <= PeriodOf(day)
    /\ At(a, "checked") => \A c \in req[a].todo : Billed(c.key[2]) = {}
    /\ At(a, "minted") => \A c \in req[a].todo : bills[c.key].status = "unpaid"
    /\ At(a, "adjusting") => req[a].line # {} /\ req[a].line \subseteq Running

\* A bill is of a row that exists and a period that was reached; only bills of the
\* period itself are credited.
BillsPlaced ==
    /\ \A k \in Keys : bills[k].kind # "none" =>
          /\ k[1] <= made /\ k[2] <= PeriodOf(day)
          /\ \A a \in Actors : Switching(a) => k[1] # req[a].fresh
    /\ \A r \in Rows : \A k \in credits[r].of : bills[k].kind = "period"

CalmInv ==
    /\ CreditInv /\ OneAtATime /\ BillsPlaced
    /\ \A a \in Actors : StillSo(a)
    /\ OneBillPerPeriod /\ CreditBacked

\* With no row opened by hand the newest row is the live one, and each one before it
\* ran at least until the next began.
InARow ==
    /\ plan[made].live /\ plan[made].end = Never
    /\ plan[1].start = 0
    /\ \A r \in 1 .. made : plan[r].start <= day
    /\ \A r \in 1 .. made - 1 : plan[r].end \in Days /\ plan[r + 1].start <= plan[r].end

\* What a request works on is that row, or the one it has just opened after it.
OnTheLast(a) ==
    /\ At(a, "holding") => req[a].seen = {made}
    /\ At(a, "stamping") \/ At(a, "reading") => req[a].seen \subseteq {made}
    /\ Switching(a) => req[a].fresh = made /\ req[a].seen = {made - 1}
    /\ At(a, "planned") \/ At(a, "checked") =>
          \A c \in req[a].todo : c.key[1] = LastPlan(c.key[2])

\* The plan the lines and credits of a period come to: a switch that is on its way
\* to the bills has yet to add its difference.
ChargedPlan(p) ==
    IF p = PeriodOf(day) /\ \E a \in Actors : Switching(a) THEN made - 1 ELSE LastPlan(p)

AddsUp ==
    \A k \in Keys :
        bills[k].kind = "period" /\ (\A n \in Billed(k[2]) : bills[n].status # "void")
            => Switched(k) = plan[ChargedPlan(k[2])].price - plan[k[1]].price

OrderInv ==
    CalmInv /\ (opened = 0 => InARow /\ AddsUp /\ \A a \in Actors : OnTheLast(a))
====
